---- MODULE Spec2Model ----
(***************************************************************************)
(* Model of the ownership core of dynamic.hpp: dptr with its ownership     *)
(* categories, shared_dptr / weak_dptr and the reference-counted control   *)
(* block (detail::shared_dptr_control_base, detail::shared_dptr_deleter).  *)
(*                                                                         *)
(* A shared_dptr or weak_dptr variable of the program is a "slot".  An     *)
(* operation on a slot is split at every access to an atomic counter of a  *)
(* control block and at every call through the control block, so that the  *)
(* operations of different slots interleave as threads do.  A slot is      *)
(* never used by two operations at once (dynamic.hpp synchronises only the *)
(* counters, not the pointer objects).                                     *)
(***************************************************************************)
EXTENDS Integers, FiniteSets, Sequences, TLC

\* ------------------------------------------------------------------ bounds
NShared == 4      \* shared_dptr variables
NWeak == 2        \* weak_dptr variables
NUnique == 3      \* unique_dptr variables
NIface == 2       \* interfaces a pointer type can request
NObj == 2         \* heap objects (addresses 1..NObj)
NCtl == 2         \* control blocks the allocator can hand out
MaxOps == 4       \* operations started in one run of the general model
MaxGarbage == 1   \* a counter read from a deallocated control block is in 0..MaxGarbage
NDptr == 2        \* dptr variables of the single-threaded model
NType == 2        \* implementation types (type t implements interfaces 1..t), each
                  \* with one type derived from it
MaxDptrOps == 3   \* operations in one run of the single-threaded dptr model
MaxLen == 3       \* elements of an array
MaxElemSize == 3  \* sizeof of an array element
MaxBase == 2      \* addresses new T[M] can return
NElemPtr == 2     \* pointers to array elements
MaxQuota == 2     \* quota of a unique_resource
NUser == 3        \* callers of a unique_resource, each with room for one permit
MaxAppend == 2    \* appends one permit holder makes to a synchronized resource
MaxSpurious == 1  \* spurious failures of compare_exchange_weak in one promotion
NThread == 3      \* threads of the memory-ordering model

SIds == 1..NShared
WIds == 1..NWeak
UIds == 1..NUnique
Ifaces == 1..NIface
Objs == 1..NObj
Ctls == 1..NCtl
Null == 0         \* nullptr
NoCtl == 0        \* control == nullptr
Addrs == Objs \cup {Null}
DIds == 1..NDptr
Types == 1..NType
\* Type NType + t is derived from type t (as dotted_square from square).
AllTypes == 1..(NType + NType)
NoType == 0       \* an ivtable pointer that was never filled
NoIface == 0      \* no interface
\* An ivtable pointer that was never filled; a filled one points to the
\* ivtable<ifc> part of the vtable of type typ.
NoVt == [typ |-> NoType, ifc |-> NoIface]

VARIABLES
    sp,        \* sp[i]: shared_dptr slot i: live, ptr_ and deleter_.control
    spc,       \* spc[i]: where the operation running on slot i stands
    loc,       \* loc[i]: the locals of the operation running on slot i
    outcome,   \* outcome[i]: how the last promotion into slot i ended
    wp,        \* wp[w]: weak_dptr slot w: live, dptr_.ptr_ and control_
    wpc,       \* wpc[w]: where the operation running on weak slot w stands
    strong,    \* strong[c]: shared_count of control block c
    weak,      \* weak[c]: weak_count of control block c
    cst,       \* cst[c]: "unused", "live" or "freed" (deallocated)
    cobj,      \* cobj[c]: ptr_ of the dptr stored in control block c
    deallocs,  \* deallocs[c]: calls of deallocate() on control block c
    allocd,    \* allocd[o]: object o was created by new
    dtorCalls, \* dtorCalls[o]: destructor calls on object o
    ub,        \* kinds of undefined behaviour the run has executed
    aborted,   \* std::terminate was called
    ops,       \* operations started so far
    up,        \* up[k]: unique_dptr slot k: live, ptr_ and requested interfaces
    upend,     \* upend[k]: the assignment running on unique_dptr slot k
    dp,        \* dp[d]: dptr slot d: live, ownership, deleter, ptr_, interfaces, ivtables_
    otype,     \* otype[o]: the implementation type object o was created with
    log,       \* log[o]: the calls and effects on object o, in order
    ret,       \* ret[d]: the value the last release() on slot d returned
    sret,      \* sret[i]: the value the last release() on shared slot i returned
    bind,      \* the source of the last operation and how it was bound, if it had one
    cv,        \* a conversion request between two dptr types and its answers
    fp,        \* fp[k]: fptr slot k: live, static type, obj_ and vtable_
    ar,        \* the array of the array model and the unique pointer that owns it
    ep,        \* ep[e]: pointer e to an element of the array
    rs,        \* a unique_resource: its quota, its semaphore and its callers
    rm,        \* the mutex_ and base_ of a unique_resource with Sync = true
    spur,      \* spur[i]: spurious failures of the exchange in the promotion into slot i
    mo         \* one control block and its threads, with what each thread has observed

vars == <<sp, spc, loc, outcome, wp, wpc, strong, weak, cst, cobj, deallocs,
          allocd, dtorCalls, ub, aborted, ops, up, upend,
          dp, otype, log, ret, sret, bind, cv, fp, ar, ep, rs, rm, spur, mo>>
\* The state of the shared/weak pointers and their control blocks.
svars == <<sp, spc, loc, outcome, wp, wpc, strong, weak, cst, cobj, deallocs>>
\* The state of the dptr variables of the single-threaded model.
dvars == <<dp, otype, log, ret, sret, bind>>
\* The state of the array model.
avars == <<ar, ep>>
\* The state of the models that stand alone.
hvars == <<avars, rs, rm, spur, mo>>
\* The state only the operations of later sections change.
gvars == <<dvars, cv, fp, hvars>>
\* The state the constructors and destructors of unique pointers leave alone.
evars == <<upend, gvars>>
\* The state of the unique pointers.
uvars == <<up, evars>>

\* No assignment is running on a unique_dptr slot.
NoPend == [op |-> "none", new |-> Null, src |-> 0]
\* The last operation had no dptr as its source.
NoBind == [src |-> 0, mv |-> FALSE]
\* A dptr variable that is not in scope.
DeadD == [live |-> FALSE, own |-> "borrowed", del |-> "destroying", ptr |-> Null,
          ifs |-> {}, vt |-> [f \in Ifaces |-> NoVt]]
\* The elements of the longest array.
Elems == 0..(MaxLen - 1)
\* Before new T[M]: no array, and the pointer that will own it not declared.
NoArray == [made |-> FALSE, base |-> Null, size |-> 0, len |-> 0, typ |-> NoType,
            edtor |-> [n \in Elems |-> 0], adel |-> 0,
            p |-> [live |-> FALSE, ptr |-> Null, vt |-> [f \in Ifaces |-> NoVt]]]
\* An element pointer that is not in scope.
DeadE == [live |-> FALSE, ptr |-> Null, vt |-> [f \in Ifaces |-> NoVt],
          own |-> "borrowed", del |-> "disabled_deleter", idx |-> 0]
\* The initial value of the array model.
ArrInit ==
    /\ ar = NoArray
    /\ ep = [e \in 1..NElemPtr |-> DeadE]
\* A caller that is not inside a call, holds no permit and got no answer.
IdleUser == [pc |-> "idle", took |-> FALSE, held |-> FALSE, res |-> "none"]
\* unique_resource res(q, ...): sem_(+quota), no permit issued.
NewResource(q) == [quota |-> q, sem |-> q, us |-> [u \in 1..NUser |-> IdleUser]]
\* No unique_resource was constructed.
NoResource == NewResource(0)
\* mutex_ unlocked, base_ an empty string (base[u]: the copies of caller u's
\* character in the string), no accessor alive, nothing appended.
NoSync == [readers |-> {}, writer |-> 0,
           base |-> [u \in 1..NUser |-> 0],
           acc |-> [u \in 1..NUser |-> "none"],
           tmp |-> [u \in 1..NUser |-> [v \in 1..NUser |-> 0]],
           done |-> [u \in 1..NUser |-> 0]]
\* A thread that was not started.
NoThread == [st |-> "unborn", view |-> {}]
\* No control block and no thread.
NoOrder == [strong |-> 0, weak |-> 0, sview |-> {}, wview |-> {}, written |-> {},
            th |-> [t \in 1..NThread |-> NoThread], seen |-> {}, freed |-> FALSE]
\* An fptr variable that is not in scope.
DeadF == [live |-> FALSE, styp |-> NoType, obj |-> Null, vt |-> NoType]
\* No conversion was requested.
NoConv == [done |-> FALSE]
\* The initial value of the dptr variables.
DptrInit ==
    /\ upend = [k \in UIds |-> NoPend]
    /\ dp = [d \in DIds |-> DeadD]
    /\ otype = [o \in Objs |-> NoType]
    /\ log = [o \in Objs |-> <<>>]
    /\ ret = [d \in DIds |-> Null]
    /\ sret = [i \in SIds |-> Null]
    /\ bind = NoBind

\* The initial value of the state of the later sections.
ExtInit ==
    /\ DptrInit
    /\ cv = NoConv
    /\ fp = [k \in DIds |-> DeadF]
    /\ ArrInit
    /\ rs = NoResource
    /\ rm = NoSync
    /\ spur = [i \in SIds |-> 0]
    /\ mo = NoOrder

DeadSlot == [live |-> FALSE, ptr |-> Null, ctl |-> NoCtl]
NoLoc == [op |-> "none", src |-> 0, wsrc |-> 0, ctl |-> NoCtl, addr |-> Null, seen |-> 0]

\* ------------------------------------------------------- control block
\* A counter access on a deallocated control block is a use after free.
Touch(c) == IF cst[c] = "freed" THEN ub \cup {"uaf"} ELSE ub

\* The values a read of counter value v of control block c can return.
Vals(c, v) == IF cst[c] = "freed" THEN 0..MaxGarbage ELSE {v}

\* The control block the next allocation returns (blocks are not reused).
Unused == {c \in Ctls : cst[c] = "unused"}
NextCtl == CHOOSE c \in Unused : \A d \in Unused : c <= d

\* ext_control_dptr::use_count for a pointer whose get_control() is c.
use_count(c) == IF c # NoCtl THEN strong[c] ELSE 0

\* weak_dptr::expired
expired(w) == use_count(wp[w].ctl) = 0

\* --------------------------------------------------------- slot access
Idle(i) == spc[i] = "idle"
\* No running operation reads shared slot j as its source.
Unread(j) == \A i \in SIds : spc[i] # "idle" => loc[i].src # j \/ i = j
\* No running operation is going to write its source, shared slot j.
Unwritten(j) ==
    \A i \in SIds : (spc[i] # "idle" /\ loc[i].op \in {"massign", "alias_mv"}) => loc[i].src # j
\* No running operation reads weak slot w as its source.
UnreadW(w) == \A i \in SIds : spc[i] # "idle" => loc[i].wsrc # w
\* The slot a newly declared variable takes: slots are interchangeable names,
\* so the general model declares a new variable in the lowest free one.
FreeS == {i \in SIds : spc[i] = "idle" /\ ~sp[i].live}
FreeW == {w \in WIds : wpc[w] = "idle" /\ ~wp[w].live}
NewS == {i \in FreeS : \A k \in FreeS : i <= k}
NewW == {w \in FreeW : \A k \in FreeW : w <= k}
\* new T returns an object that was not allocated before.
NewObj == {o \in Objs : ~allocd[o] /\ \A k \in Objs : ~allocd[k] => o <= k}
Running == ~aborted
\* The general model starts at most MaxOps operations.
Budget == ops < MaxOps /\ ops' = ops + 1

TypeOK ==
    /\ \A i \in SIds : sp[i].ptr \in Addrs /\ sp[i].ctl \in Ctls \cup {NoCtl}
    /\ \A w \in WIds : wp[w].ptr \in Addrs /\ wp[w].ctl \in Ctls \cup {NoCtl}

CoreInit ==
    /\ sp = [i \in SIds |-> DeadSlot]
    /\ spc = [i \in SIds |-> "idle"]
    /\ loc = [i \in SIds |-> NoLoc]
    /\ outcome = [i \in SIds |-> "none"]
    /\ wp = [w \in WIds |-> DeadSlot]
    /\ wpc = [w \in WIds |-> "idle"]
    /\ strong = [c \in Ctls |-> 0]
    /\ weak = [c \in Ctls |-> 0]
    /\ cst = [c \in Ctls |-> "unused"]
    /\ cobj = [c \in Ctls |-> Null]
    /\ deallocs = [c \in Ctls |-> 0]
    /\ allocd = [o \in Objs |-> FALSE]
    /\ dtorCalls = [o \in Objs |-> 0]
    /\ ub = {}
    /\ aborted = FALSE
    /\ ops = 0
    /\ up = [k \in UIds |-> [live |-> FALSE, ptr |-> Null, ifs |-> {}]]

Init == CoreInit /\ ExtInit

\* The shared pointers that own a share of control block c: the variables
\* whose destruction releases c (~dptr releases only for a non-null ptr_).
Owners(c) == {i \in SIds : sp[i].live /\ Idle(i) /\ sp[i].ptr # Null /\ sp[i].ctl = c}

\* SharedCtor with a control block that starts without the weak count's
\* extra one.
SharedCtor_NoExtra(i, o) ==
    /\ Running /\ Idle(i) /\ ~sp[i].live
    /\ ~allocd[o] /\ Unused # {}
    /\ LET c == NextCtl IN
        /\ sp' = [sp EXCEPT ![i] = [live |-> TRUE, ptr |-> o, ctl |-> c]]
        /\ strong' = [strong EXCEPT ![c] = 1]
        /\ weak' = [weak EXCEPT ![c] = 0]
        /\ cst' = [cst EXCEPT ![c] = "live"]
        /\ cobj' = [cobj EXCEPT ![c] = o]
    /\ allocd' = [allocd EXCEPT ![o] = TRUE]
    /\ outcome' = [outcome EXCEPT ![i] = "none"]
    /\ UNCHANGED <<spc, loc, wp, wpc, deallocs, dtorCalls, ub, aborted>>
    /\ UNCHANGED uvars

\* shared_dptr p(new T): dptr(T* ptr) stores ptr, and shared_dptr_deleter
\* (const DPtr&) allocates a control block with shared_count = weak_count = 1
\* that holds a dptr to the object.
SharedCtor(i, o) ==
    /\ Running /\ Idle(i) /\ ~sp[i].live
    /\ ~allocd[o] /\ Unused # {}
    /\ LET c == NextCtl IN
        /\ sp' = [sp EXCEPT ![i] = [live |-> TRUE, ptr |-> o, ctl |-> c]]
        /\ strong' = [strong EXCEPT ![c] = 1]
        /\ weak' = [weak EXCEPT ![c] = 1]
        /\ cst' = [cst EXCEPT ![c] = "live"]
        /\ cobj' = [cobj EXCEPT ![c] = o]
    /\ allocd' = [allocd EXCEPT ![o] = TRUE]
    /\ outcome' = [outcome EXCEPT ![i] = "none"]
    /\ UNCHANGED <<spc, loc, wp, wpc, deallocs, dtorCalls, ub, aborted>>
    /\ UNCHANGED uvars

\* shared_dptr p: dptr(Args&&...) leaves ptr_ null, and shared_dptr_deleter
\* (const DPtr&) sets control = nullptr for a null dptr.
SharedCtorNull(i) ==
    /\ Running /\ Idle(i) /\ ~sp[i].live
    /\ sp' = [sp EXCEPT ![i] = [live |-> TRUE, ptr |-> Null, ctl |-> NoCtl]]
    /\ outcome' = [outcome EXCEPT ![i] = "none"]
    /\ UNCHANGED <<spc, loc, wp, wpc, strong, weak, cst, cobj, deallocs,
                   allocd, dtorCalls, ub, aborted>>
    /\ UNCHANGED uvars

\* ------------------------------------------------------------- release
\* What follows destroy_and_delete() in the operation op that called it:
\* ~dptr ends the slot; operator=(const dptr&) goes on to copy from slot j;
\* operator=(dptr&&) takes ptr_ and control of slot j and empties slot j;
\* an explicit p.destroy_and_delete() sets ptr_ = nullptr and leaves control.
RelEnd(i, op, j) ==
    CASE op = "dtor" ->
            /\ sp' = [sp EXCEPT ![i] = DeadSlot]
            /\ spc' = [spc EXCEPT ![i] = "idle"]
            /\ loc' = [loc EXCEPT ![i] = NoLoc]
      [] op = "cassign" ->
            /\ sp' = [sp EXCEPT ![i].ptr = Null]
            /\ spc' = [spc EXCEPT ![i] = "assign"]
            /\ loc' = [loc EXCEPT ![i] = [NoLoc EXCEPT !.op = op, !.src = j]]
      [] op = "massign" ->
            /\ sp' = [sp EXCEPT
                        ![i] = [live |-> TRUE,
                                ptr |-> IF j = i THEN Null ELSE sp[j].ptr,
                                ctl |-> sp[j].ctl],
                        ![j] = [live |-> TRUE, ptr |-> Null, ctl |-> NoCtl]]
            /\ spc' = [spc EXCEPT ![i] = "idle"]
            /\ loc' = [loc EXCEPT ![i] = NoLoc]
      [] op = "destroy" ->
            /\ sp' = [sp EXCEPT ![i].ptr = Null]
            /\ spc' = [spc EXCEPT ![i] = "idle"]
            /\ loc' = [loc EXCEPT ![i] = NoLoc]


\* RelStart with a release that destroys whatever count it read.
RelStart_AlwaysDestroys(i, op, j) ==
    LET c == sp[i].ctl IN
    IF sp[i].ptr = Null \/ c = NoCtl
    THEN /\ RelEnd(i, op, j)
         /\ UNCHANGED <<strong, ub>>
    ELSE \E old \in Vals(c, strong[c]) :
         /\ strong' = [strong EXCEPT ![c] = old - 1]
         /\ ub' = Touch(c)
         /\ spc' = [spc EXCEPT ![i] = "rel_dtor"]
         /\ loc' = [loc EXCEPT ![i] = [NoLoc EXCEPT !.op = op, !.src = j, !.ctl = c]]
         /\ UNCHANGED sp

\* if (ptr_) destroy_and_delete(), up to the first counter access:
\* shared_dptr_deleter::operator() does control->shared_count.fetch_sub(1)
\* and destroys when the value it read is 1.
RelStart(i, op, j) ==
    LET c == sp[i].ctl IN
    IF sp[i].ptr = Null \/ c = NoCtl
    THEN /\ RelEnd(i, op, j)
         /\ UNCHANGED <<strong, ub>>
    ELSE \E old \in Vals(c, strong[c]) :
         /\ strong' = [strong EXCEPT ![c] = old - 1]
         /\ ub' = Touch(c)
         /\ IF old = 1
            THEN /\ spc' = [spc EXCEPT ![i] = "rel_dtor"]
                 /\ loc' = [loc EXCEPT ![i] = [NoLoc EXCEPT !.op = op, !.src = j, !.ctl = c]]
                 /\ UNCHANGED sp
            ELSE RelEnd(i, op, j)

\* ~dptr of a shared_dptr.
DtorBegin(i) ==
    /\ Running /\ Idle(i) /\ sp[i].live /\ Unread(i)
    /\ RelStart(i, "dtor", i)
    /\ UNCHANGED <<outcome, wp, wpc, weak, cst, cobj, deallocs, allocd, dtorCalls, aborted>>
    /\ UNCHANGED uvars

\* operator=(const dptr& other) with other = slot j (j = i: self-assignment).
CopyAssignBegin(i, j) ==
    /\ Running /\ Idle(i) /\ sp[i].live /\ Unread(i)
    /\ Idle(j) /\ sp[j].live /\ Unwritten(j)
    /\ RelStart(i, "cassign", j)
    /\ UNCHANGED <<outcome, wp, wpc, weak, cst, cobj, deallocs, allocd, dtorCalls, aborted>>
    /\ UNCHANGED uvars

\* operator=(dptr&& other) with other = slot j.
MoveAssignBegin(i, j) ==
    /\ Running /\ Idle(i) /\ sp[i].live /\ Unread(i)
    /\ Idle(j) /\ sp[j].live /\ Unread(j)
    /\ RelStart(i, "massign", j)
    /\ UNCHANGED <<outcome, wp, wpc, weak, cst, cobj, deallocs, allocd, dtorCalls, aborted>>
    /\ UNCHANGED uvars


\* RelDtor without the destructor call.
RelDtor_Skips(i) ==
    /\ Running /\ spc[i] = "rel_dtor"
    /\ ub' = Touch(loc[i].ctl)
    /\ spc' = [spc EXCEPT ![i] = "rel_weak"]
    /\ UNCHANGED <<sp, loc, outcome, wp, wpc, strong, weak, cst, cobj, deallocs,
                   allocd, dtorCalls, aborted, ops>>
    /\ UNCHANGED uvars

\* RelDtor destroying the address held by the releasing pointer.
RelDtor_OwnAddress(i) ==
    /\ Running /\ spc[i] = "rel_dtor"
    /\ LET c == loc[i].ctl
           o == sp[i].ptr
       IN /\ IF o = Null
             THEN /\ ub' = Touch(c) \cup {"null_destroy"}
                  /\ UNCHANGED dtorCalls
             ELSE /\ ub' = IF dtorCalls[o] > 0 THEN Touch(c) \cup {"double_destroy"} ELSE Touch(c)
                  /\ dtorCalls' = [dtorCalls EXCEPT ![o] = @ + 1]
          /\ cobj' = [cobj EXCEPT ![c] = Null]
    /\ spc' = [spc EXCEPT ![i] = "rel_weak"]
    /\ UNCHANGED <<sp, loc, outcome, wp, wpc, strong, weak, cst, deallocs, allocd, aborted, ops>>
    /\ UNCHANGED uvars

\* control->destroy_and_delete(): the dptr stored in the control block runs
\* the object's destructor and operator delete, then nulls its ptr_.
RelDtor(i) ==
    /\ Running /\ spc[i] = "rel_dtor"
    /\ LET c == loc[i].ctl
           o == cobj[c]
       IN /\ IF o = Null
             THEN /\ ub' = Touch(c) \cup {"null_destroy"}
                  /\ UNCHANGED dtorCalls
             ELSE /\ ub' = IF dtorCalls[o] > 0 THEN Touch(c) \cup {"double_destroy"} ELSE Touch(c)
                  /\ dtorCalls' = [dtorCalls EXCEPT ![o] = @ + 1]
          /\ cobj' = [cobj EXCEPT ![c] = Null]
    /\ spc' = [spc EXCEPT ![i] = "rel_weak"]
    /\ UNCHANGED <<sp, loc, outcome, wp, wpc, strong, weak, cst, deallocs, allocd, aborted, ops>>
    /\ UNCHANGED uvars

\* control->weak_count.fetch_sub(1) == 1 decides on deallocate().
RelWeak(i) ==
    /\ Running /\ spc[i] = "rel_weak"
    /\ LET c == loc[i].ctl IN
       \E old \in Vals(c, weak[c]) :
         /\ weak' = [weak EXCEPT ![c] = old - 1]
         /\ ub' = Touch(c)
         /\ IF old = 1
            THEN /\ spc' = [spc EXCEPT ![i] = "rel_free"]
                 /\ UNCHANGED <<sp, loc>>
            ELSE RelEnd(i, loc[i].op, loc[i].src)
    /\ UNCHANGED <<outcome, wp, wpc, strong, cst, cobj, deallocs, allocd, dtorCalls, aborted, ops>>
    /\ UNCHANGED uvars

\* shared_dptr_control::deallocate.
Deallocate(c) ==
    /\ cst' = [cst EXCEPT ![c] = "freed"]
    /\ deallocs' = [deallocs EXCEPT ![c] = @ + 1]
    /\ ub' = Touch(c)

RelFree(i) ==
    /\ Running /\ spc[i] = "rel_free"
    /\ Deallocate(loc[i].ctl)
    /\ RelEnd(i, loc[i].op, loc[i].src)
    /\ UNCHANGED <<outcome, wp, wpc, strong, weak, cobj, allocd, dtorCalls, aborted, ops>>
    /\ UNCHANGED uvars

\* The rest of operator=(const dptr&): ptr_ = other.ptr_, and
\* shared_dptr_deleter::assign adds 1 to other.control->shared_count.
AssignStep(i) ==
    /\ Running /\ spc[i] = "assign"
    /\ LET j == loc[i].src
           c == sp[j].ctl
       IN /\ sp' = [sp EXCEPT ![i] = [live |-> TRUE, ptr |-> sp[j].ptr, ctl |-> c]]
          /\ IF c = NoCtl
             THEN UNCHANGED <<strong, ub>>
             ELSE \E old \in Vals(c, strong[c]) :
                    /\ strong' = [strong EXCEPT ![c] = old + 1]
                    /\ ub' = Touch(c)
    /\ spc' = [spc EXCEPT ![i] = "idle"]
    /\ loc' = [loc EXCEPT ![i] = NoLoc]
    /\ UNCHANGED <<outcome, wp, wpc, weak, cst, cobj, deallocs, allocd, dtorCalls, aborted, ops>>
    /\ UNCHANGED uvars

\* SharedMoveCtor that only resets other.ptr_ and leaves other.control.
SharedMoveCtor_KeepsControl(i, j) ==
    /\ Running /\ Idle(i) /\ ~sp[i].live
    /\ i # j /\ Idle(j) /\ sp[j].live /\ Unread(j)
    /\ sp' = [sp EXCEPT ![i] = [live |-> TRUE, ptr |-> sp[j].ptr, ctl |-> sp[j].ctl],
                        ![j] = [live |-> TRUE, ptr |-> Null, ctl |-> sp[j].ctl]]
    /\ outcome' = [outcome EXCEPT ![i] = "none"]
    /\ UNCHANGED <<spc, loc, wp, wpc, strong, weak, cst, cobj, deallocs,
                   allocd, dtorCalls, ub, aborted>>
    /\ UNCHANGED uvars

\* dptr(dptr&& other): takes ptr_ and the control of slot j; other.control
\* and other.ptr_ become null.
SharedMoveCtor(i, j) ==
    /\ Running /\ Idle(i) /\ ~sp[i].live
    /\ i # j /\ Idle(j) /\ sp[j].live /\ Unread(j)
    /\ sp' = [sp EXCEPT ![i] = [live |-> TRUE, ptr |-> sp[j].ptr, ctl |-> sp[j].ctl],
                        ![j] = [live |-> TRUE, ptr |-> Null, ctl |-> NoCtl]]
    /\ outcome' = [outcome EXCEPT ![i] = "none"]
    /\ UNCHANGED <<spc, loc, wp, wpc, strong, weak, cst, cobj, deallocs,
                   allocd, dtorCalls, ub, aborted>>
    /\ UNCHANGED uvars


\* Expired whose throwing handler returns an empty pointer instead.
Expired_ReturnsEmpty(i, op, j, addr) ==
    /\ spc' = [spc EXCEPT ![i] = "idle"]
    /\ loc' = [loc EXCEPT ![i] = NoLoc]
    /\ sp' = [sp EXCEPT ![i] = [live |-> TRUE, ptr |-> Null, ctl |-> NoCtl]]
    /\ outcome' = [outcome EXCEPT ![i] = "expired"]
    /\ UNCHANGED aborted

\* ----------------------------------------------------------- promotion
\* expired_handler() of shared_dptr_deleter(control, expired_handler):
\* the copy constructor's handler throws std::bad_weak_ptr out of a noexcept
\* constructor (std::terminate); shared_dptr(const weak_dptr&) throws
\* std::bad_weak_ptr and no object is constructed; the aliasing constructor
\* sets control = nullptr.
Expired(i, op, j, addr) ==
    /\ spc' = [spc EXCEPT ![i] = "idle"]
    /\ loc' = [loc EXCEPT ![i] = NoLoc]
    /\ CASE op = "copy" ->
              /\ aborted' = TRUE
              /\ UNCHANGED <<sp, outcome>>
         [] op = "promote" ->
              /\ outcome' = [outcome EXCEPT ![i] = "expired"]
              /\ UNCHANGED <<sp, aborted>>
         [] op = "alias" ->
              /\ sp' = [sp EXCEPT ![i] = [live |-> TRUE, ptr |-> addr, ctl |-> NoCtl]]
              /\ outcome' = [outcome EXCEPT ![i] = "none"]
              /\ UNCHANGED aborted
         [] op = "alias_mv" ->
              /\ sp' = [sp EXCEPT ![i] = [live |-> TRUE, ptr |-> addr, ctl |-> NoCtl],
                                  ![j].ptr = Null]
              /\ outcome' = [outcome EXCEPT ![i] = "none"]
              /\ UNCHANGED aborted

\* shared_dptr_deleter(control, expired_handler) up to the load:
\* if (control) shared_count = control->shared_count.load(acquire).
PromoStart(i, op, c, j, w, addr) ==
    IF c = NoCtl
    THEN /\ Expired(i, op, j, addr)
         /\ UNCHANGED ub
    ELSE \E v \in Vals(c, strong[c]) :
         /\ spc' = [spc EXCEPT ![i] = "cas"]
         /\ loc' = [loc EXCEPT ![i] = [op |-> op, src |-> j, wsrc |-> w, ctl |-> c,
                                       addr |-> addr, seen |-> v]]
         /\ ub' = Touch(c)
         /\ UNCHANGED <<sp, outcome, aborted>>


\* CasStep with a plain store of shared_count + 1 in place of the exchange.
CasStep_Stores(i) ==
    /\ Running /\ spc[i] = "cas"
    /\ LET l == loc[i]
           c == l.ctl
       IN IF l.seen = 0
          THEN /\ Expired(i, l.op, l.src, l.addr)
               /\ UNCHANGED <<strong, ub>>
          ELSE /\ ub' = Touch(c)
               /\ strong' = [strong EXCEPT ![c] = l.seen + 1]
               /\ sp' = IF l.op = "alias_mv"
                        THEN [sp EXCEPT ![i] = [live |-> TRUE, ptr |-> l.addr, ctl |-> c],
                                        ![l.src].ptr = Null]
                        ELSE [sp EXCEPT ![i] = [live |-> TRUE, ptr |-> l.addr, ctl |-> c]]
               /\ outcome' = [outcome EXCEPT ![i] = IF l.op = "promote" THEN "ok" ELSE "none"]
               /\ spc' = [spc EXCEPT ![i] = "idle"]
               /\ loc' = [loc EXCEPT ![i] = NoLoc]
               /\ UNCHANGED aborted
    /\ UNCHANGED <<wp, wpc, weak, cst, cobj, deallocs, allocd, dtorCalls, ops>>
    /\ UNCHANGED uvars

\* CasStep whose failed exchange leaves the expected value as it was.
CasStep_NoReload(i) ==
    /\ Running /\ spc[i] = "cas"
    /\ LET l == loc[i]
           c == l.ctl
       IN IF l.seen = 0
          THEN /\ Expired(i, l.op, l.src, l.addr)
               /\ UNCHANGED <<strong, ub>>
          ELSE \E cur \in Vals(c, strong[c]) :
               /\ ub' = Touch(c)
               /\ IF cur = l.seen
                  THEN /\ strong' = [strong EXCEPT ![c] = l.seen + 1]
                       /\ sp' = IF l.op = "alias_mv"
                                THEN [sp EXCEPT ![i] = [live |-> TRUE, ptr |-> l.addr, ctl |-> c],
                                                ![l.src].ptr = Null]
                                ELSE [sp EXCEPT ![i] = [live |-> TRUE, ptr |-> l.addr, ctl |-> c]]
                       /\ outcome' = [outcome EXCEPT ![i] = IF l.op = "promote" THEN "ok" ELSE "none"]
                       /\ spc' = [spc EXCEPT ![i] = "idle"]
                       /\ loc' = [loc EXCEPT ![i] = NoLoc]
                       /\ UNCHANGED aborted
                  ELSE UNCHANGED <<loc, strong, sp, outcome, spc, aborted>>
    /\ UNCHANGED <<wp, wpc, weak, cst, cobj, deallocs, allocd, dtorCalls, ops>>
    /\ UNCHANGED uvars

\* One turn of while (shared_count) compare_exchange_weak(shared_count,
\* shared_count + 1): a failed exchange loads the current value.
CasStep(i) ==
    /\ Running /\ spc[i] = "cas"
    /\ LET l == loc[i]
           c == l.ctl
       IN IF l.seen = 0
          THEN /\ Expired(i, l.op, l.src, l.addr)
               /\ UNCHANGED <<strong, ub>>
          ELSE \E cur \in Vals(c, strong[c]) :
               /\ ub' = Touch(c)
               /\ IF cur = l.seen
                  THEN /\ strong' = [strong EXCEPT ![c] = l.seen + 1]
                       /\ sp' = IF l.op = "alias_mv"
                                THEN [sp EXCEPT ![i] = [live |-> TRUE, ptr |-> l.addr, ctl |-> c],
                                                ![l.src].ptr = Null]
                                ELSE [sp EXCEPT ![i] = [live |-> TRUE, ptr |-> l.addr, ctl |-> c]]
                       /\ outcome' = [outcome EXCEPT ![i] = IF l.op = "promote" THEN "ok" ELSE "none"]
                       /\ spc' = [spc EXCEPT ![i] = "idle"]
                       /\ loc' = [loc EXCEPT ![i] = NoLoc]
                       /\ UNCHANGED aborted
                  ELSE /\ loc' = [loc EXCEPT ![i].seen = cur]
                       /\ UNCHANGED <<strong, sp, outcome, spc, aborted>>
    /\ UNCHANGED <<wp, wpc, weak, cst, cobj, deallocs, allocd, dtorCalls, ops>>
    /\ UNCHANGED uvars

\* shared_dptr(const shared_dptr&): ptr_(other.ptr_), and the deleter's copy
\* constructor runs the promotion loop on other.control.
SharedCopyBegin(i, j) ==
    /\ Running /\ Idle(i) /\ ~sp[i].live
    /\ i # j /\ Idle(j) /\ sp[j].live /\ Unwritten(j)
    /\ PromoStart(i, "copy", sp[j].ctl, j, 0, sp[j].ptr)
    /\ UNCHANGED <<wp, wpc, strong, weak, cst, cobj, deallocs, allocd, dtorCalls>>
    /\ UNCHANGED uvars

\* shared_dptr(const weak_dptr& other): parent(detach_deleter, other.dptr_,
\* other.control_).
PromoteBegin(i, w) ==
    /\ Running /\ Idle(i) /\ ~sp[i].live
    /\ wpc[w] = "idle" /\ wp[w].live
    /\ PromoStart(i, "promote", wp[w].ctl, 0, w, wp[w].ptr)
    /\ UNCHANGED <<wp, wpc, strong, weak, cst, cobj, deallocs, allocd, dtorCalls>>
    /\ UNCHANGED uvars

\* shared_dptr(alias_with, other, addr) with other an lvalue (mv = FALSE) or
\* an rvalue (mv = TRUE): parent(addr, alias_with, other.get_control()), then
\* other.quick_reset() for an rvalue.
AliasBegin(i, j, addr, mv) ==
    /\ Running /\ Idle(i) /\ ~sp[i].live
    /\ i # j /\ Idle(j) /\ sp[j].live /\ Unwritten(j) /\ (mv => Unread(j))
    /\ PromoStart(i, IF mv THEN "alias_mv" ELSE "alias", sp[j].ctl, j, 0, addr)
    /\ UNCHANGED <<wp, wpc, strong, weak, cst, cobj, deallocs, allocd, dtorCalls>>
    /\ UNCHANGED uvars

\* weak_dptr::lock(): expired() ? shared_dptr() : shared_dptr(dptr_).
\* shared_dptr(dptr_) is dptr(T&&) from the weak pointer's borrowed dptr: it
\* copies ptr_ and builds the deleter from the borrowed dptr's default_deleter,
\* that is by shared_dptr_deleter(const DPtr&, D&&, const Alloc&), which
\* allocates a new control block for a non-null ptr_.
Lock(i, w) ==
    /\ Running /\ Idle(i) /\ ~sp[i].live
    /\ wpc[w] = "idle" /\ wp[w].live
    /\ LET c == wp[w].ctl IN
       \E n \in (IF c = NoCtl THEN {0} ELSE Vals(c, strong[c])) :
         /\ ub' = IF c = NoCtl THEN ub ELSE Touch(c)
         /\ IF n = 0 \/ wp[w].ptr = Null
            THEN /\ sp' = [sp EXCEPT ![i] = [live |-> TRUE, ptr |-> Null, ctl |-> NoCtl]]
                 /\ UNCHANGED <<strong, weak, cst, cobj>>
            ELSE /\ Unused # {}
                 /\ LET d == NextCtl IN
                    /\ sp' = [sp EXCEPT ![i] = [live |-> TRUE, ptr |-> wp[w].ptr, ctl |-> d]]
                    /\ strong' = [strong EXCEPT ![d] = 1]
                    /\ weak' = [weak EXCEPT ![d] = 1]
                    /\ cst' = [cst EXCEPT ![d] = "live"]
                    /\ cobj' = [cobj EXCEPT ![d] = wp[w].ptr]
    /\ outcome' = [outcome EXCEPT ![i] = "none"]
    /\ UNCHANGED <<spc, loc, wp, wpc, deallocs, allocd, dtorCalls, aborted>>
    /\ UNCHANGED uvars

\* ---------------------------------------------------------------- weak
\* weak_dptr::record_control
record_control(c) ==
    IF c = NoCtl
    THEN UNCHANGED <<weak, ub>>
    ELSE \E old \in Vals(c, weak[c]) :
           /\ weak' = [weak EXCEPT ![c] = old + 1]
           /\ ub' = Touch(c)

\* weak_dptr(const shared_dptr& other): dptr_(detach_deleter, other),
\* control_(other.get_control()), record_control(control_).
WeakFromShared(w, j) ==
    /\ Running /\ wpc[w] = "idle" /\ ~wp[w].live
    /\ Idle(j) /\ sp[j].live /\ Unwritten(j)
    /\ wp' = [wp EXCEPT ![w] = [live |-> TRUE, ptr |-> sp[j].ptr, ctl |-> sp[j].ctl]]
    /\ record_control(sp[j].ctl)
    /\ UNCHANGED <<sp, spc, loc, outcome, wpc, strong, cst, cobj, deallocs,
                   allocd, dtorCalls, aborted>>
    /\ UNCHANGED uvars

\* weak_dptr(const weak_dptr& other)
WeakCopy(w, v) ==
    /\ Running /\ wpc[w] = "idle" /\ ~wp[w].live
    /\ w # v /\ wpc[v] = "idle" /\ wp[v].live
    /\ wp' = [wp EXCEPT ![w] = wp[v]]
    /\ record_control(wp[v].ctl)
    /\ UNCHANGED <<sp, spc, loc, outcome, wpc, strong, cst, cobj, deallocs,
                   allocd, dtorCalls, aborted>>
    /\ UNCHANGED uvars

\* weak_dptr(weak_dptr&& other): other.dptr_ = nullptr, other.control_ = nullptr.
WeakMove(w, v) ==
    /\ Running /\ wpc[w] = "idle" /\ ~wp[w].live
    /\ w # v /\ wpc[v] = "idle" /\ wp[v].live /\ UnreadW(v)
    /\ wp' = [wp EXCEPT ![w] = wp[v],
                        ![v] = [live |-> TRUE, ptr |-> Null, ctl |-> NoCtl]]
    /\ UNCHANGED <<sp, spc, loc, outcome, wpc, strong, weak, cst, cobj, deallocs,
                   allocd, dtorCalls, ub, aborted>>
    /\ UNCHANGED uvars

\* ~weak_dptr up to its counter access: control_->weak_count.fetch_sub(1) == 1
\* decides on deallocate().
WeakDtorBegin(w) ==
    /\ Running /\ wpc[w] = "idle" /\ wp[w].live /\ UnreadW(w)
    /\ LET c == wp[w].ctl IN
       IF c = NoCtl
       THEN /\ wp' = [wp EXCEPT ![w] = DeadSlot]
            /\ UNCHANGED <<wpc, weak, ub>>
       ELSE \E old \in Vals(c, weak[c]) :
            /\ weak' = [weak EXCEPT ![c] = old - 1]
            /\ ub' = Touch(c)
            /\ IF old = 1
               THEN /\ wpc' = [wpc EXCEPT ![w] = "free"]
                    /\ UNCHANGED wp
               ELSE /\ wp' = [wp EXCEPT ![w] = DeadSlot]
                    /\ UNCHANGED wpc
    /\ UNCHANGED <<sp, spc, loc, outcome, strong, cst, cobj, deallocs,
                   allocd, dtorCalls, aborted>>
    /\ UNCHANGED uvars

\* ~weak_dptr: control_->deallocate().
WeakFree(w) ==
    /\ Running /\ wpc[w] = "free"
    /\ Deallocate(wp[w].ctl)
    /\ wp' = [wp EXCEPT ![w] = DeadSlot]
    /\ wpc' = [wpc EXCEPT ![w] = "idle"]
    /\ UNCHANGED <<sp, spc, loc, outcome, strong, weak, cobj, allocd, dtorCalls,
                   aborted, ops>>
    /\ UNCHANGED uvars

\* weak_dptr::release_control(c) followed by record_control(d) or nothing
\* (d = NoCtl): the fetch_sub's result is not looked at.
release_control(c, d) ==
    LET w1 == IF c = NoCtl THEN weak ELSE [weak EXCEPT ![c] = @ - 1]
        w2 == IF d = NoCtl THEN w1 ELSE [w1 EXCEPT ![d] = @ + 1]
    IN /\ weak' = w2
       /\ ub' = (IF c = NoCtl THEN {} ELSE Touch(c)) \cup (IF d = NoCtl THEN {} ELSE Touch(d)) \cup ub

\* weak_dptr::reset: release_control(control_), control_ = nullptr.
WeakReset(w) ==
    /\ Running /\ wpc[w] = "idle" /\ wp[w].live /\ UnreadW(w)
    /\ release_control(wp[w].ctl, NoCtl)
    /\ wp' = [wp EXCEPT ![w].ctl = NoCtl]
    /\ UNCHANGED <<sp, spc, loc, outcome, wpc, strong, cst, cobj, deallocs,
                   allocd, dtorCalls, aborted>>
    /\ UNCHANGED uvars

\* weak_dptr::assign(internal_copy, other): dptr_ = other.dptr_,
\* record_control(other.control_), release_control(control_),
\* control_ = other.control_.
WeakCopyAssign(w, v) ==
    /\ Running /\ wpc[w] = "idle" /\ wp[w].live /\ UnreadW(w)
    /\ wpc[v] = "idle" /\ wp[v].live
    /\ release_control(wp[w].ctl, wp[v].ctl)
    /\ wp' = [wp EXCEPT ![w] = wp[v]]
    /\ UNCHANGED <<sp, spc, loc, outcome, wpc, strong, cst, cobj, deallocs,
                   allocd, dtorCalls, aborted>>
    /\ UNCHANGED uvars

\* weak_dptr::assign(internal_move, other): release_control(control_),
\* dptr_ = std::move(other.dptr_) (which nulls other.dptr_),
\* control_ = other.control_, other.control_ = nullptr.
WeakMoveAssign(w, v) ==
    /\ Running /\ wpc[w] = "idle" /\ wp[w].live /\ UnreadW(w)
    /\ w # v /\ wpc[v] = "idle" /\ wp[v].live /\ UnreadW(v)
    /\ release_control(wp[w].ctl, NoCtl)
    /\ wp' = [wp EXCEPT ![w] = wp[v],
                        ![v] = [live |-> TRUE, ptr |-> Null, ctl |-> NoCtl]]
    /\ UNCHANGED <<sp, spc, loc, outcome, wpc, strong, cst, cobj, deallocs,
                   allocd, dtorCalls, aborted>>
    /\ UNCHANGED uvars

\* -------------------------------------------------------------- unique
\* The interface lists a pointer type can request (at least one interface).
IfSets == (SUBSET Ifaces) \ {{}}
DeadU == [live |-> FALSE, ptr |-> Null, ifs |-> {}]
FreeU == {k \in UIds : ~up[k].live}
NewU == {k \in FreeU : \A m \in FreeU : k <= m}

\* superset_of with its arguments exchanged.
superset_of_Reversed(src, dst) == src \subseteq dst

\* detail::superset_of<typename DT::interfaces, interfaces>: every interface
\* the target requests is among the source's.
superset_of(src, dst) == dst \subseteq src

\* unique_dptr<Is...> p(new T): dptr(T* ptr) with ownership == unique.
UniqueCtor(k, o, ifs) ==
    /\ Running /\ ~up[k].live /\ ~allocd[o]
    /\ up' = [up EXCEPT ![k] = [live |-> TRUE, ptr |-> o, ifs |-> ifs]]
    /\ allocd' = [allocd EXCEPT ![o] = TRUE]
    /\ UNCHANGED <<dtorCalls, ub, aborted>>
    /\ UNCHANGED svars
    /\ UNCHANGED evars


\* UniqueMoveCtor without other.quick_reset().
UniqueMoveCtor_KeepsSource(k, j, ifs) ==
    /\ Running /\ ~up[k].live /\ k # j /\ up[j].live
    /\ superset_of(up[j].ifs, ifs)
    /\ up' = [up EXCEPT ![k] = [live |-> TRUE, ptr |-> up[j].ptr, ifs |-> ifs]]
    /\ UNCHANGED <<allocd, dtorCalls, ub, aborted>>
    /\ UNCHANGED svars
    /\ UNCHANGED evars

\* dptr(dptr&& other) and dptr(T&& other) from an rvalue unique pointer whose
\* interfaces are a superset of the requested ones: copies ptr_ and the
\* required ivtables, then other.quick_reset().
UniqueMoveCtor(k, j, ifs) ==
    /\ Running /\ ~up[k].live /\ k # j /\ up[j].live
    /\ superset_of(up[j].ifs, ifs)
    /\ up' = [up EXCEPT ![k] = [live |-> TRUE, ptr |-> up[j].ptr, ifs |-> ifs],
                        ![j].ptr = Null]
    /\ UNCHANGED <<allocd, dtorCalls, ub, aborted>>
    /\ UNCHANGED svars
    /\ UNCHANGED evars

\* ~dptr with ownership == unique: if (ptr_) destroy_and_delete(), where the
\* default deleter runs the destructor from the first ivtable and operator
\* delete.
UniqueDtor(k) ==
    /\ Running /\ up[k].live
    /\ LET o == up[k].ptr IN
       IF o = Null
       THEN UNCHANGED <<dtorCalls, ub>>
       ELSE /\ dtorCalls' = [dtorCalls EXCEPT ![o] = @ + 1]
            /\ ub' = IF dtorCalls[o] > 0 THEN ub \cup {"double_destroy"} ELSE ub
    /\ up' = [up EXCEPT ![k] = DeadU]
    /\ UNCHANGED <<allocd, aborted>>
    /\ UNCHANGED svars
    /\ UNCHANGED evars

NextUnique ==
    \/ \E k \in NewU, o \in NewObj, ifs \in IfSets : Budget /\ UniqueCtor(k, o, ifs)
    \/ \E k \in NewU, j \in UIds, ifs \in IfSets : Budget /\ UniqueMoveCtor(k, j, ifs)
    \/ \E k \in UIds : Budget /\ UniqueDtor(k)

SpecUnique == Init /\ [][NextUnique]_vars

\* ------------------------------------- assignment to a unique pointer
\* No assignment is running on any unique_dptr slot: the operations of the
\* unique pointers run on one thread, one after the other.
UIdle == \A k \in UIds : upend[k] = NoPend

\* The first half of an assignment that leaks the object held so far.
AssignBeginU_Leaks(k) ==
    /\ UNCHANGED <<up, dtorCalls, ub>>

\* if (ownership != borrowed && ptr_ != nullptr) destroy_and_delete(): the
\* default deleter runs the destructor and operator delete, then
\* destroy_and_delete sets ptr_ = nullptr.
AssignBeginU(k) ==
    LET o == up[k].ptr IN
    IF o = Null
    THEN UNCHANGED <<up, dtorCalls, ub>>
    ELSE /\ dtorCalls' = [dtorCalls EXCEPT ![o] = @ + 1]
         /\ ub' = IF dtorCalls[o] > 0 THEN ub \cup {"double_destroy"} ELSE ub
         /\ up' = [up EXCEPT ![k].ptr = Null]

\* p.reset(new T) and p = new T up to the return of destroy_and_delete():
\* the argument is evaluated before the call.
UniqueAssignPtrBegin(k, o) ==
    /\ Running /\ UIdle /\ up[k].live /\ ~allocd[o]
    /\ allocd' = [allocd EXCEPT ![o] = TRUE]
    /\ AssignBeginU(k)
    /\ upend' = [upend EXCEPT ![k] = [op |-> "ptr", new |-> o, src |-> 0]]
    /\ UNCHANGED aborted
    /\ UNCHANGED svars
    /\ UNCHANGED gvars

\* p = std::move(q) up to the return of destroy_and_delete(); q is another
\* unique pointer whose interfaces are a superset of p's.
UniqueMoveAssignBegin(k, j) ==
    /\ Running /\ UIdle /\ up[k].live /\ up[j].live /\ k # j
    /\ superset_of(up[j].ifs, up[k].ifs)
    /\ AssignBeginU(k)
    /\ upend' = [upend EXCEPT ![k] = [op |-> "move", new |-> Null, src |-> j]]
    /\ UNCHANGED <<allocd, aborted>>
    /\ UNCHANGED svars
    /\ UNCHANGED gvars

\* The rest of the assignment: ptr_ = ptr and fill_ivtables, or
\* ptr_ = other.ptr_, the copy of the ivtables and other.quick_reset().
UniqueAssignFinish(k) ==
    /\ Running /\ upend[k].op # "none"
    /\ up' = IF upend[k].op = "ptr"
             THEN [up EXCEPT ![k].ptr = upend[k].new]
             ELSE [up EXCEPT ![k].ptr = up[upend[k].src].ptr,
                             ![upend[k].src].ptr = Null]
    /\ upend' = [upend EXCEPT ![k] = NoPend]
    /\ UNCHANGED <<allocd, dtorCalls, ub, aborted>>
    /\ UNCHANGED svars
    /\ UNCHANGED gvars

NextReset ==
    \/ \E k \in NewU, o \in NewObj, ifs \in IfSets : Budget /\ UIdle /\ UniqueCtor(k, o, ifs)
    \/ \E k \in NewU, j \in UIds, ifs \in IfSets : Budget /\ UIdle /\ UniqueMoveCtor(k, j, ifs)
    \/ \E k \in UIds, o \in NewObj : Budget /\ UniqueAssignPtrBegin(k, o)
    \/ \E k \in UIds, j \in UIds : Budget /\ UniqueMoveAssignBegin(k, j)
    \/ \E k \in UIds : UNCHANGED ops /\ UniqueAssignFinish(k)
    \/ \E k \in UIds : Budget /\ UIdle /\ UniqueDtor(k)

SpecReset == Init /\ [][NextReset]_vars

\* ------------------------------------------- dptr, single-threaded model
\* A dptr variable of any type but shared: its ownership category, whether
\* its deleter is a destroying one (as default_deleter) or a deleter that
\* only deallocates, the interfaces it requests and, per interface, the
\* implementation type whose vtable the ivtable pointer points into.
Owns == {"borrowed", "unique"}
Dels == {"destroying", "plain"}

\* The type a derived type is derived from; any other type itself.
Base(t) == IF t > NType THEN t - NType ELSE t

\* std::derived_from<T> U.
derived_from(u, t) == u = t \/ Base(u) = t

\* struct T : implements<Is...>: the interfaces of implementation type t; a
\* derived type implements the interfaces of its base.
Implements(t) == {f \in Ifaces : f <= Base(t)}

\* fill_ivtables(ivtables, &ptr->vtable()): every requested ivtable pointer
\* points into the vtable of the static type of ptr.
fill_ivtables(ifs, t) ==
    [f \in Ifaces |-> IF f \in ifs THEN [typ |-> t, ifc |-> f] ELSE NoVt]

\* copy_ivtables_to that takes the source's pointers by position: the n-th
\* requested interface gets the n-th ivtable pointer of the source.
copy_ivtables_to_ByPosition(ifs, src) ==
    LET from == {g \in Ifaces : src[g] # NoVt}
        Pos(S, g) == Cardinality({h \in S : h < g})
        Nth(S, n) == CHOOSE g \in S : Pos(S, g) = n
    IN  [f \in Ifaces |->
            IF f \in ifs /\ Pos(ifs, f) < Cardinality(from)
            THEN src[Nth(from, Pos(ifs, f))] ELSE NoVt]

\* copy_ivtables_to(ivtables, src): every requested ivtable pointer is the
\* source's pointer of the same type, that is for the same interface.
copy_ivtables_to(ifs, src) == [f \in Ifaces |-> IF f \in ifs THEN src[f] ELSE NoVt]

FreeD == {d \in DIds : ~dp[d].live}
NewD == {d \in FreeD : \A e \in FreeD : d <= e}

\* The destructor calls among the events e.
NDtor(e) == Cardinality({n \in DOMAIN e : e[n] = "dtor"})

\* destroy(): the dtor entry of the first ivtable runs the destructor.
destroy_events == <<"destroy", "dtor">>

\* deleter_(*this): a destroying deleter destroys the object and then
\* deallocates it; any other deleter only deallocates it.
deleter_events(del) ==
    IF del = "destroying" THEN <<"deleter", "dtor", "free">> ELSE <<"deleter", "free">>

\* destroy_and_delete() that calls destroy() whatever the deleter is.
destroy_and_delete_AlwaysDestroys(del) == destroy_events \o deleter_events(del)

\* The two overloads of destroy_and_delete(), selected by
\* deleter_type::destroying_delete.
destroy_and_delete(del) ==
    IF del = "destroying" THEN deleter_events(del)
    ELSE destroy_events \o deleter_events(del)

\* The events e happen to object o.
Happen(o, e) ==
    /\ log' = [log EXCEPT ![o] = @ \o e]
    /\ dtorCalls' = [dtorCalls EXCEPT ![o] = @ + NDtor(e)]
    /\ ub' = IF dtorCalls[o] + NDtor(e) > 1 THEN ub \cup {"double_destroy"} ELSE ub

\* if (ptr_ != nullptr) destroy_and_delete(), whatever the ownership is.
DropOld_AnyOwnership(d) ==
    IF dp[d].ptr # Null
    THEN Happen(dp[d].ptr, destroy_and_delete(dp[d].del))
    ELSE UNCHANGED <<log, dtorCalls, ub>>

\* if (ownership != borrowed && ptr_ != nullptr) destroy_and_delete().
DropOld(d) ==
    IF dp[d].own # "borrowed" /\ dp[d].ptr # Null
    THEN Happen(dp[d].ptr, destroy_and_delete(dp[d].del))
    ELSE UNCHANGED <<log, dtorCalls, ub>>

\* What no operation of this section changes.
dframe == <<aborted, svars, up, upend, sret, cv, fp, hvars>>

\* dptr<I, Is..., D> p(new T): explicit dptr(T* ptr), T implementing every
\* requested interface.
DptrCtor(d, own, del, o, t, ifs) ==
    /\ Running /\ ~dp[d].live /\ ~allocd[o] /\ ifs \subseteq Implements(t)
    /\ dp' = [dp EXCEPT ![d] = [live |-> TRUE, own |-> own, del |-> del, ptr |-> o,
                                ifs |-> ifs, vt |-> fill_ivtables(ifs, t)]]
    /\ allocd' = [allocd EXCEPT ![o] = TRUE]
    /\ otype' = [otype EXCEPT ![o] = t]
    /\ UNCHANGED <<log, ret, dtorCalls, ub>>
    /\ bind' = NoBind
    /\ UNCHANGED dframe

\* p.destroy(): runs the destructor and leaves ptr_ as it is.
DptrDestroy(d) ==
    /\ Running /\ dp[d].live /\ dp[d].ptr # Null
    /\ Happen(dp[d].ptr, destroy_events)
    /\ UNCHANGED <<dp, otype, ret, allocd>>
    /\ bind' = NoBind
    /\ UNCHANGED dframe

\* p.destroy_and_delete() on a non-null pointer.
DptrDestroyAndDelete(d) ==
    /\ Running /\ dp[d].live /\ dp[d].ptr # Null
    /\ Happen(dp[d].ptr, destroy_and_delete(dp[d].del))
    /\ dp' = [dp EXCEPT ![d].ptr = Null]
    /\ UNCHANGED <<otype, ret, allocd>>
    /\ bind' = NoBind
    /\ UNCHANGED dframe

\* ~dptr: defaulted when borrowed, else if (ptr_) destroy_and_delete().
DptrDtor(d) ==
    /\ Running /\ dp[d].live
    /\ DropOld(d)
    /\ dp' = [dp EXCEPT ![d] = DeadD]
    /\ UNCHANGED <<otype, ret, allocd>>
    /\ bind' = NoBind
    /\ UNCHANGED dframe

\* The target type (own, ifs, deleter of the source) is the source's type.
SameType(j, own, ifs) == own = dp[j].own /\ ifs = dp[j].ifs

\* Whether a construction or an assignment from dptr j, bound as an rvalue
\* iff mv, calls other.quick_reset(): dptr(dptr&&) and operator=(dptr&&)
\* always do, the converting overloads do if the source is not borrowed and
\* not bound as an lvalue, the copy overloads never do.
ResetsSource(j, own, ifs, mv) ==
    mv /\ (SameType(j, own, ifs) \/ dp[j].own # "borrowed")

\* The constraints of a construction or an assignment from dptr j: a unique
\* source is not bound as an lvalue and the source has every interface the
\* target requests.
Accepts(j, ifs, mv) ==
    /\ dp[j].own # "unique" \/ mv
    /\ superset_of(dp[j].ifs, ifs)

\* dptr<...> p(q) and dptr<...> p(std::move(q)): the copy, move and
\* converting constructors.
DptrFrom(d, j, own, ifs, mv) ==
    /\ Running /\ ~dp[d].live /\ dp[j].live /\ d # j
    /\ Accepts(j, ifs, mv)
    /\ dp' = [dp EXCEPT ![d] = [live |-> TRUE, own |-> own, del |-> dp[j].del,
                                ptr |-> dp[j].ptr, ifs |-> ifs,
                                vt |-> copy_ivtables_to(ifs, dp[j].vt)],
                        ![j].ptr = IF ResetsSource(j, own, ifs, mv) THEN Null ELSE @]
    /\ UNCHANGED <<otype, log, ret, allocd, dtorCalls, ub>>
    /\ bind' = [src |-> j, mv |-> mv]
    /\ UNCHANGED dframe

\* p = q and p = std::move(q): the copy, move and converting assignments,
\* the latter between pointers of one deleter type.
DptrAssign(d, j, mv) ==
    /\ Running /\ dp[d].live /\ dp[j].live /\ d # j
    /\ Accepts(j, dp[d].ifs, mv)
    /\ dp[j].del = dp[d].del
    /\ DropOld(d)
    /\ dp' = [dp EXCEPT ![d].ptr = dp[j].ptr,
                        ![d].vt = copy_ivtables_to(dp[d].ifs, dp[j].vt),
                        ![j].ptr = IF ResetsSource(j, dp[d].own, dp[d].ifs, mv)
                                   THEN Null ELSE @]
    /\ UNCHANGED <<otype, ret, allocd>>
    /\ bind' = [src |-> j, mv |-> mv]
    /\ UNCHANGED dframe

\* p = new T and p.reset(new T).
DptrAssignPtr(d, o, t) ==
    /\ Running /\ dp[d].live /\ ~allocd[o] /\ dp[d].ifs \subseteq Implements(t)
    /\ DropOld(d)
    /\ dp' = [dp EXCEPT ![d].ptr = o, ![d].vt = fill_ivtables(dp[d].ifs, t)]
    /\ allocd' = [allocd EXCEPT ![o] = TRUE]
    /\ otype' = [otype EXCEPT ![o] = t]
    /\ UNCHANGED ret
    /\ bind' = NoBind
    /\ UNCHANGED dframe

\* release() that destroys and deletes the object it gives away.
DptrRelease_Destroys(d) ==
    /\ Running /\ dp[d].live
    /\ ret' = [ret EXCEPT ![d] = dp[d].ptr]
    /\ dp' = [dp EXCEPT ![d].ptr = Null]
    /\ IF dp[d].ptr # Null
       THEN Happen(dp[d].ptr, destroy_and_delete(dp[d].del))
       ELSE UNCHANGED <<log, dtorCalls, ub>>
    /\ UNCHANGED <<otype, allocd>>
    /\ bind' = NoBind
    /\ UNCHANGED dframe

\* p.release(): ptr = ptr_; ptr_ = nullptr; return ptr.
DptrRelease(d) ==
    /\ Running /\ dp[d].live
    /\ ret' = [ret EXCEPT ![d] = dp[d].ptr]
    /\ dp' = [dp EXCEPT ![d].ptr = Null]
    /\ UNCHANGED <<otype, log, allocd, dtorCalls, ub>>
    /\ bind' = NoBind
    /\ UNCHANGED dframe

\* The single-threaded model starts at most MaxDptrOps operations.
DBudget == ops < MaxDptrOps /\ ops' = ops + 1

\* A pointer is constructed from new T with all the interfaces of T; the
\* conversions narrow them.
NextDptr ==
    \/ \E d \in NewD, own \in Owns, del \in Dels, o \in NewObj, t \in Types :
          DBudget /\ DptrCtor(d, own, del, o, t, Implements(t))
    \/ \E d \in NewD, j \in DIds, own \in Owns, ifs \in IfSets, mv \in BOOLEAN :
          DBudget /\ DptrFrom(d, j, own, ifs, mv)
    \/ \E d \in DIds, j \in DIds, mv \in BOOLEAN : DBudget /\ DptrAssign(d, j, mv)
    \/ \E d \in DIds, o \in NewObj, t \in Types : DBudget /\ DptrAssignPtr(d, o, t)
    \/ \E d \in DIds : DBudget /\ DptrDestroy(d)
    \/ \E d \in DIds : DBudget /\ DptrDestroyAndDelete(d)
    \/ \E d \in DIds : DBudget /\ DptrRelease(d)
    \/ \E d \in DIds : DBudget /\ DptrDtor(d)

SpecDptr == Init /\ [][NextDptr]_vars

\* ------------------------------------------------------------- release()
\* p.release() on a shared_dptr: only ptr_ is set to nullptr, the deleter
\* keeps its control block and the control block its counts.
SharedRelease(i) ==
    /\ Running /\ Idle(i) /\ sp[i].live /\ Unread(i)
    /\ sret' = [sret EXCEPT ![i] = sp[i].ptr]
    /\ sp' = [sp EXCEPT ![i].ptr = Null]
    /\ UNCHANGED <<spc, loc, outcome, wp, wpc, strong, weak, cst, cobj, deallocs>>
    /\ UNCHANGED <<allocd, dtorCalls, ub, aborted>>
    /\ UNCHANGED <<up, upend, dp, otype, log, ret, bind, cv, fp, hvars>>

NextRelease ==
    \/ \E d \in NewD, own \in Owns, del \in Dels, o \in NewObj, t \in Types :
          Budget /\ DptrCtor(d, own, del, o, t, Implements(t))
    \/ \E d \in DIds : Budget /\ DptrRelease(d)
    \/ \E d \in DIds : Budget /\ DptrDtor(d)
    \/ \E i \in NewS, o \in NewObj : Budget /\ SharedCtor(i, o)
    \/ \E i \in NewS, j \in SIds : Budget /\ SharedCopyBegin(i, j)
    \/ \E i \in SIds : Budget /\ SharedRelease(i)
    \/ \E i \in SIds : Budget /\ DtorBegin(i)
    \/ \E i \in SIds : CasStep(i)
    \/ \E i \in SIds : RelDtor(i)
    \/ \E i \in SIds : RelWeak(i)
    \/ \E i \in SIds : RelFree(i)

SpecRelease == Init /\ [][NextRelease]_vars

\* ------------------------------------------------- conversion constraints
\* The dptr types: ownership from the value category of I, const from its
\* cv-qualification, the requested interfaces and the deleter type (the
\* default one, the default of an array pointer or the disabled one).
DelTypes == {"default_deleter", "default_array_deleter", "disabled_deleter"}
DptrTypes == [own : Owns, cst : BOOLEAN, ifs : IfSets, del : DelTypes]

\* How the source expression binds to T&&: T is X&, const X&, X or const X.
Bindings == {"lvalue", "const lvalue", "rvalue", "const rvalue"}
is_lvalue_reference(bd) == bd \in {"lvalue", "const lvalue"}
\* std::is_const_v<T> is false for a reference type.
is_const(bd) == bd = "const rvalue"

\* std::is_convertible_v<typename DT::base_type, base_type>: void* converts
\* to void* and const void*, const void* only to const void*.
base_convertible(a, b) == a.cst => b.cst

\* std::is_constructible_v<deleter_type, const dptr&, D>: deleter_wrap<X> is
\* constructible from a deleter_wrap<Y> iff X is constructible from it, and
\* the three deleters have unrelated bases.
deleter_constructible(a, b) == a.del = b.del

\* The constraints of dptr(T&& other).
converting_ctor(a, b, bd) ==
    /\ a.own # "unique" \/ ~is_lvalue_reference(bd)
    /\ a.own = "borrowed" \/ ~is_const(bd)
    /\ superset_of(a.ifs, b.ifs)
    /\ base_convertible(a, b)
    /\ deleter_constructible(a, b)

\* dptr(const dptr&) takes a source of the same type that is not a
\* non-const rvalue, unless the type is unique.
copy_ctor(a, b, bd) == a = b /\ bd # "rvalue" /\ a.own # "unique"

\* dptr(dptr&&) and operator=(dptr&&) take a non-const rvalue of the same type.
move_ctor(a, b, bd) == a = b /\ bd = "rvalue"

\* std::is_constructible_v<B, A>.
is_constructible(a, b, bd) ==
    copy_ctor(a, b, bd) \/ move_ctor(a, b, bd) \/ converting_ctor(a, b, bd)

\* std::is_assignable_v<B&, A>: operator=(const dptr&), operator=(dptr&&),
\* the latter also from the temporary an implicit conversion of the source
\* makes, and operator=(T&& other), which requires the same deleter type.
is_assignable(a, b, bd) ==
    \/ copy_ctor(a, b, bd)
    \/ move_ctor(a, b, bd)
    \/ converting_ctor(a, b, bd)
    \/ /\ a.own # "unique" \/ ~is_lvalue_reference(bd)
       /\ a.own = "borrowed" \/ ~is_const(bd)
       /\ superset_of(a.ifs, b.ifs)
       /\ base_convertible(a, b)
       /\ a.del = b.del

\* A request to convert a value of type a, bound as bd, to type b.
ConvRequests == [done : {FALSE}, a : DptrTypes, b : DptrTypes, bd : Bindings,
                 ctor : {FALSE}, asg : {FALSE}]

InitConv ==
    /\ CoreInit
    /\ DptrInit
    /\ fp = [k \in DIds |-> DeadF]
    /\ ArrInit
    /\ rs = NoResource
    /\ rm = NoSync
    /\ spur = [i \in SIds |-> 0]
    /\ mo = NoOrder
    /\ cv \in ConvRequests

\* is_settable_v<B, A> of dptr_constraints_test evaluates both traits.
Settle ==
    /\ ~cv.done
    /\ cv' = [cv EXCEPT !.done = TRUE,
                        !.ctor = is_constructible(cv.a, cv.b, cv.bd),
                        !.asg = is_assignable(cv.a, cv.b, cv.bd)]
    /\ UNCHANGED <<allocd, dtorCalls, ub, aborted, ops>>
    /\ UNCHANGED <<svars, up, upend, dvars, fp, hvars>>

NextConv == Settle

SpecConv == InitConv /\ [][NextConv]_vars

\* --------------------------------------------------------------- dispatch
\* p[&V::m]: bind_dyn(ptr_, std::get<const ivtable<V>*>(ivtables_)->*mptr):
\* the entry of the ivtable the pointer for V points to, bound to ptr_.
dptr_subscript(d, f) == [impl |-> dp[d].vt[f], self |-> dp[d].ptr]

\* fp[&I::m]: bind_dyn(obj_, vtable_->*mptr): the entry of the ivtable<I>
\* part of the vtable, bound to obj_.
fptr_subscript(k, f) == [impl |-> [typ |-> fp[k].vt, ifc |-> f], self |-> fp[k].obj]

FreeF == {k \in DIds : ~fp[k].live}
NewF == {k \in FreeF : \A m \in FreeF : k <= m}

\* T obj: an object with automatic storage.
Declare(o, t) ==
    /\ Running /\ ~allocd[o]
    /\ allocd' = [allocd EXCEPT ![o] = TRUE]
    /\ otype' = [otype EXCEPT ![o] = t]
    /\ bind' = NoBind
    /\ UNCHANGED <<dp, log, ret, fp, dtorCalls, ub>>
    /\ UNCHANGED <<aborted, svars, up, upend, sret, cv, hvars>>

\* fptr<T> f = &obj: implements::operator& returns {addressof(self),
\* addressof(self.vtable())} with the static type of obj.
FptrAddr(k, o) ==
    /\ Running /\ ~fp[k].live /\ allocd[o] /\ dtorCalls[o] = 0
    /\ fp' = [fp EXCEPT ![k] = [live |-> TRUE, styp |-> otype[o], obj |-> o,
                                vt |-> otype[o]]]
    /\ bind' = NoBind
    /\ UNCHANGED <<dp, otype, log, ret, allocd, dtorCalls, ub>>
    /\ UNCHANGED <<aborted, svars, up, upend, sret, cv, hvars>>

\* fptr<T> g = f with f an fptr<U>, U derived from T: obj_(other.obj_),
\* vtable_(other.vtable_).
FptrConv(k, j, t) ==
    /\ Running /\ ~fp[k].live /\ fp[j].live /\ k # j
    /\ derived_from(fp[j].styp, t)
    /\ fp' = [fp EXCEPT ![k] = [live |-> TRUE, styp |-> t, obj |-> fp[j].obj,
                                vt |-> fp[j].vt]]
    /\ bind' = NoBind
    /\ UNCHANGED <<dp, otype, log, ret, allocd, dtorCalls, ub>>
    /\ UNCHANGED <<aborted, svars, up, upend, sret, cv, hvars>>

\* Borrowed pointers with default deleters, constructed from new T for any
\* type T and any interfaces T implements, narrowed and assigned; fat
\* pointers to declared objects, converted to the base type.
NextDispatch ==
    \/ \E d \in NewD, o \in NewObj, t \in AllTypes, ifs \in IfSets :
          DBudget /\ DptrCtor(d, "borrowed", "destroying", o, t, ifs)
    \/ \E d \in NewD, j \in DIds, ifs \in IfSets, mv \in BOOLEAN :
          DBudget /\ DptrFrom(d, j, "borrowed", ifs, mv)
    \/ \E d \in DIds, j \in DIds, mv \in BOOLEAN : DBudget /\ DptrAssign(d, j, mv)
    \/ \E d \in DIds, o \in NewObj, t \in AllTypes : DBudget /\ DptrAssignPtr(d, o, t)
    \/ \E o \in NewObj, t \in AllTypes : DBudget /\ Declare(o, t)
    \/ \E k \in NewF, o \in Objs : DBudget /\ FptrAddr(k, o)
    \/ \E k \in NewF, j \in DIds, t \in AllTypes : DBudget /\ FptrConv(k, j, t)

SpecDispatch == Init /\ [][NextDispatch]_vars

\* ----------------------------------------------------------------- arrays
EIds == 1..NElemPtr
\* What no operation of this section changes.
aframe == <<allocd, dtorCalls, ub, aborted, ops, svars, up, upend, dvars, cv, fp, rs, rm, spur, mo>>

\* unique_dptr<I[]> p(new T[m]): new returns address b, the vtable of T
\* stores sizeof(T) = sz, and every ivtable pointer points into it.
ArrayCtor(b, sz, m, t) ==
    /\ ~ar.made
    /\ ar' = [NoArray EXCEPT !.made = TRUE, !.base = b, !.size = sz, !.len = m,
                             !.typ = t,
                             !.p = [live |-> TRUE, ptr |-> b,
                                    vt |-> fill_ivtables(Implements(t), t)]]
    /\ UNCHANGED ep
    /\ UNCHANGED aframe

\* operator+ without the element size: ptr_ + idx.
ArrayPlus_Unscaled(e, i) ==
    /\ ar.p.live /\ ar.p.ptr # Null /\ ~ep[e].live /\ i < ar.len
    /\ ep' = [ep EXCEPT ![e] = [live |-> TRUE, ptr |-> ar.p.ptr + i, vt |-> ar.p.vt,
                                own |-> "borrowed", del |-> "disabled_deleter",
                                idx |-> i]]
    /\ UNCHANGED ar
    /\ UNCHANGED aframe

\* auto q = p + i with i < m: offset = std::get<0>(ivtables_)->size * idx;
\* result{static_cast<byte_t>(ptr_) + offset, ivtables_}, result being the
\* borrowed type with disabled_deleter.
ArrayPlus(e, i) ==
    /\ ar.p.live /\ ar.p.ptr # Null /\ ~ep[e].live /\ i < ar.len
    /\ ep' = [ep EXCEPT ![e] = [live |-> TRUE, ptr |-> ar.p.ptr + ar.size * i,
                                vt |-> ar.p.vt,
                                own |-> "borrowed", del |-> "disabled_deleter",
                                idx |-> i]]
    /\ UNCHANGED ar
    /\ UNCHANGED aframe

\* ~dptr of an element pointer: defaulted, its ownership being borrowed.
ElemDtor(e) ==
    /\ ep[e].live
    /\ ep' = [ep EXCEPT ![e] = DeadE]
    /\ UNCHANGED ar
    /\ UNCHANGED aframe

\* An array deleter that treats the array as one object: dtor and delete.
arr_deleter_FirstOnly(a) ==
    [a EXCEPT !.adel = @ + 1, !.edtor = [n \in Elems |-> IF n = 0 THEN @[n] + 1 ELSE @[n]]]

\* default_array_deleter: the arr_deleter entry of the first ivtable runs
\* delete[] static_cast<T*>(arr), which destroys every element.
arr_deleter(a) ==
    [a EXCEPT !.adel = @ + 1,
              !.edtor = [n \in Elems |-> IF n < a.len THEN @[n] + 1 ELSE @[n]]]

\* p.destroy_and_delete() of the array pointer: deleter_(*this); ptr_ = nullptr.
ArrayDestroyAndDelete ==
    /\ ar.p.live /\ ar.p.ptr # Null
    /\ ar' = [arr_deleter(ar) EXCEPT !.p.ptr = Null]
    /\ UNCHANGED ep
    /\ UNCHANGED aframe

\* ~dptr of the array pointer: if (ptr_) destroy_and_delete().
ArrayDtor ==
    /\ ar.p.live
    /\ ar' = [(IF ar.p.ptr # Null THEN arr_deleter(ar) ELSE ar) EXCEPT
                 !.p = [live |-> FALSE, ptr |-> Null, vt |-> ar.p.vt]]
    /\ UNCHANGED ep
    /\ UNCHANGED aframe

NextArr ==
    \/ \E b \in 1..MaxBase, sz \in 1..MaxElemSize, m \in 1..MaxLen, t \in Types :
          ArrayCtor(b, sz, m, t)
    \/ \E e \in EIds, i \in Elems : ArrayPlus(e, i)
    \/ \E e \in EIds : ElemDtor(e)
    \/ ArrayDestroyAndDelete
    \/ ArrayDtor

SpecArr == Init /\ [][NextArr]_vars

\* ------------------------------------------------------- unique_resource
\* unique_resource<T> with the default std::counting_semaphore<>.  A caller
\* is a place of the program that calls the resource and keeps the permit
\* it gets until the permit is destroyed.
Users == 1..NUser
\* What no operation of this section changes.
rframe == <<allocd, dtorCalls, ub, aborted, ops, svars, up, upend, dvars, cv, fp, avars, rm, spur, mo>>

InitRes ==
    /\ CoreInit
    /\ DptrInit
    /\ cv = NoConv
    /\ fp = [k \in DIds |-> DeadF]
    /\ ArrInit
    /\ \E q \in 1..MaxQuota : rs = NewResource(q)
    /\ rm = NoSync
    /\ spur = [i \in SIds |-> 0]
    /\ mo = NoOrder

\* Caller u enters acquire(), try_acquire() or try_acquire_for().
Call(u, kind) ==
    /\ rs.us[u].pc = "idle" /\ ~rs.us[u].held
    /\ rs' = [rs EXCEPT !.us[u] = [IdleUser EXCEPT !.pc = kind]]
    /\ UNCHANGED rframe

\* A semaphore operation that succeeds without decrementing the counter.
Take_KeepsUnit(u) ==
    /\ rs.us[u].pc \in {"acquire", "try_acquire", "try_acquire_for"}
    /\ rs' = [rs EXCEPT !.us[u].pc = "issue", !.us[u].took = TRUE]
    /\ UNCHANGED rframe

\* sem_.acquire(), sem_.try_acquire() or sem_.try_acquire_for() decrements
\* the counter, which needs a counter greater than 0.
Take(u) ==
    /\ rs.us[u].pc \in {"acquire", "try_acquire", "try_acquire_for"}
    /\ rs.sem > 0
    /\ rs' = [rs EXCEPT !.sem = @ - 1, !.us[u].pc = "issue", !.us[u].took = TRUE]
    /\ UNCHANGED rframe

\* sem_.try_acquire() returns false, at once: the counter is 0, or the
\* implementation fails spuriously; sem_.try_acquire_for() returns false
\* when the timeout has passed.  sem_.acquire() never returns without a unit.
Fail(u) ==
    /\ rs.us[u].pc \in {"try_acquire", "try_acquire_for"}
    /\ rs' = [rs EXCEPT !.us[u].pc = "issue", !.us[u].took = FALSE]
    /\ UNCHANGED rframe

\* return {key, this} of acquire() and issue(success) of the others: a
\* permit is constructed iff the semaphore operation succeeded.
Return(u) ==
    /\ rs.us[u].pc = "issue"
    /\ rs' = [rs EXCEPT !.us[u] = [pc |-> "idle", took |-> FALSE,
                                   held |-> rs.us[u].took,
                                   res |-> IF rs.us[u].took THEN "permit" ELSE "nullopt"]]
    /\ UNCHANGED rframe

\* ~permit that returns nothing to the semaphore.
Drop_KeepsUnit(u) ==
    /\ rs.us[u].held
    /\ rs' = [rs EXCEPT !.us[u].held = FALSE]
    /\ UNCHANGED rframe

\* ~permit: owner_.sem_.release().
Drop(u) ==
    /\ rs.us[u].held
    /\ rs' = [rs EXCEPT !.sem = @ + 1, !.us[u].held = FALSE]
    /\ UNCHANGED rframe

NextRes ==
    \/ \E u \in Users, kind \in {"acquire", "try_acquire", "try_acquire_for"} : Call(u, kind)
    \/ \E u \in Users : Take(u)
    \/ \E u \in Users : Fail(u)
    \/ \E u \in Users : Return(u)
    \/ \E u \in Users : Drop(u)

SpecRes == InitRes /\ [][NextRes]_vars

\* sem_.acquire() returns if the counter stays above 0 (release() wakes the
\* threads that wait), and a call that has finished its semaphore operation
\* returns.  std::counting_semaphore promises no order among the threads
\* that wait, and no holder has to destroy its permit.
FairRes ==
    \A u \in Users :
        /\ WF_vars(rs.us[u].pc = "acquire" /\ Take(u))
        /\ WF_vars(Return(u))

LiveRes == InitRes /\ [][NextRes]_vars /\ FairRes

\* --------------------------------------------- unique_resource, Sync = true
\* sync_test: every caller is a thread that asks for a permit once, by
\* try_acquire_for, and with a permit appends its character to the string
\* through write(), reading the size through read() before and after.  A
\* thread has at most one accessor at a time (std::shared_mutex is not
\* recursive).
\* What the accessors leave alone.
mframe == <<allocd, dtorCalls, ub, aborted, ops, svars, up, upend, dvars, cv, fp, avars, rs, spur, mo>>

\* permit::read() with sync: permit_ptr<std::shared_lock<SharedMutex>, c>
\* (owner_), whose lock_(owner.mutex_) is mutex_.lock_shared(): it waits
\* while the mutex is held exclusively.
OpenRead(u) ==
    /\ rs.us[u].held /\ rm.acc[u] = "none"
    /\ rm.writer = 0
    /\ rm' = [rm EXCEPT !.readers = @ \cup {u}, !.acc[u] = "read"]
    /\ UNCHANGED mframe

\* The end of the full expression p->read()->size(): ~permit_ptr destroys
\* lock_, which is mutex_.unlock_shared().
CloseRead(u) ==
    /\ rm.acc[u] = "read"
    /\ rm' = [rm EXCEPT !.readers = @ \ {u}, !.acc[u] = "none"]
    /\ UNCHANGED mframe

\* write() whose accessor takes the mutex shared, as read() does.
OpenWrite_Shared(u) ==
    /\ rs.us[u].held /\ rm.acc[u] = "none" /\ rm.done[u] < MaxAppend
    /\ rm.writer = 0
    /\ rm' = [rm EXCEPT !.readers = @ \cup {u}, !.acc[u] = "write"]
    /\ UNCHANGED mframe

\* permit::write() with sync: permit_ptr<std::scoped_lock<SharedMutex>>
\* (owner_), whose lock_(owner.mutex_) is mutex_.lock(): it waits while the
\* mutex is held in any mode.
OpenWrite(u) ==
    /\ rs.us[u].held /\ rm.acc[u] = "none" /\ rm.done[u] < MaxAppend
    /\ rm.writer = 0 /\ rm.readers = {}
    /\ rm' = [rm EXCEPT !.writer = u, !.acc[u] = "write"]
    /\ UNCHANGED mframe

\* append(s), first half: the string is read.
AppendLoad(u) ==
    /\ rm.acc[u] = "write"
    /\ rm' = [rm EXCEPT !.acc[u] = "append", !.tmp[u] = rm.base]
    /\ UNCHANGED mframe

\* append(s), second half: the string that was read is stored with the
\* thread's character added.
AppendStore(u) ==
    /\ rm.acc[u] = "append"
    /\ rm' = [rm EXCEPT !.acc[u] = "written",
                        !.base = [rm.tmp[u] EXCEPT ![u] = @ + 1],
                        !.tmp[u] = NoSync.tmp[u],
                        !.done[u] = @ + 1]
    /\ UNCHANGED mframe

\* The end of the full expression p->write()->append(s): ~permit_ptr
\* destroys lock_, which is mutex_.unlock().
CloseWrite(u) ==
    /\ rm.acc[u] = "written"
    /\ rm' = [rm EXCEPT !.writer = IF @ = u THEN 0 ELSE @,
                        !.readers = @ \ {u}, !.acc[u] = "none"]
    /\ UNCHANGED mframe

NextSync ==
    \/ \E u \in Users : rs.us[u].res = "none" /\ Call(u, "try_acquire_for")
    \/ \E u \in Users : Take(u)
    \/ \E u \in Users : Fail(u)
    \/ \E u \in Users : Return(u)
    \/ \E u \in Users : OpenRead(u)
    \/ \E u \in Users : CloseRead(u)
    \/ \E u \in Users : OpenWrite(u)
    \/ \E u \in Users : AppendLoad(u)
    \/ \E u \in Users : AppendStore(u)
    \/ \E u \in Users : CloseWrite(u)
    \* the end of the thread's lambda: ~p
    \/ \E u \in Users : rm.acc[u] = "none" /\ Drop(u)

SpecSync == InitRes /\ [][NextSync]_vars

\* ---------------------------------------------------------- memory ordering
\* One control block whose owners and observers live in different threads.
\* A write is named by the thread that made it; the destructor's effects are
\* the write Dtor.  th[t].view is the set of writes that happen before the
\* next step of thread t; sview and wview are the writes published by the
\* release sequences on shared_count and weak_count (every operation on the
\* counters is a read-modify-write, so a release sequence is never broken).
Threads == 1..NThread
Dtor == 0
\* The memory orders of the counter operations.
strong_inc_order == "relaxed"
strong_dec_order_Relaxed == "relaxed"
strong_dec_order == "acq_rel"
weak_inc_order == "relaxed"
weak_dec_order == "acq_rel"
\* std::memory_order: which orders make a read-modify-write a release
\* operation, and which an acquire operation.
is_release(o) == o \in {"release", "acq_rel", "seq_cst"}
is_acquire(o) == o \in {"acquire", "acq_rel", "seq_cst"}
\* What the thread has observed after a read-modify-write of order o on a
\* counter whose release sequences published pub, and what they publish after it.
after_rmw(view, pub, o) == IF is_acquire(o) THEN view \cup pub ELSE view
published(view, pub, o) == IF is_release(o) THEN pub \cup view ELSE pub
\* What the operations of this section leave alone.
oframe == <<allocd, dtorCalls, ub, aborted, ops, svars, up, upend, dvars, cv, fp, avars,
            rs, rm, spur>>

\* shared_dptr p(new T) in thread 1: shared_count = weak_count = 1.
InitOrder ==
    /\ CoreInit
    /\ DptrInit
    /\ cv = NoConv
    /\ fp = [k \in DIds |-> DeadF]
    /\ ArrInit
    /\ rs = NoResource
    /\ rm = NoSync
    /\ spur = [i \in SIds |-> 0]
    /\ mo = [NoOrder EXCEPT !.strong = 1, !.weak = 1,
                            !.th[1] = [st |-> "owner", view |-> {}]]

\* Thread t writes to the object through its owner.
OwnerWrite(t) ==
    /\ mo.th[t].st = "owner" /\ t \notin mo.written
    /\ mo' = [mo EXCEPT !.written = @ \cup {t}, !.th[t].view = @ \cup {t}]
    /\ UNCHANGED oframe

\* Thread t copy-assigns its owner to a pointer it hands to a new thread n:
\* shared_count.fetch_add(1, relaxed); the start of a thread synchronizes
\* with the thread that started it.
OwnerCopy(t, n) ==
    /\ mo.th[t].st = "owner" /\ mo.th[n].st = "unborn"
    /\ mo' = [mo EXCEPT !.strong = @ + 1,
                        !.sview = published(mo.th[t].view, @, strong_inc_order),
                        !.th[t].view = after_rmw(@, mo.sview, strong_inc_order),
                        !.th[n] = [st |-> "owner",
                                   view |-> after_rmw(mo.th[t].view, mo.sview, strong_inc_order)]]
    /\ UNCHANGED oframe

\* Thread t makes a weak_dptr from its owner and hands it to a new thread n:
\* record_control: weak_count.fetch_add(1, relaxed).
OwnerObserve(t, n) ==
    /\ mo.th[t].st = "owner" /\ mo.th[n].st = "unborn"
    /\ mo' = [mo EXCEPT !.weak = @ + 1,
                        !.wview = published(mo.th[t].view, @, weak_inc_order),
                        !.th[t].view = after_rmw(@, mo.wview, weak_inc_order),
                        !.th[n] = [st |-> "observer",
                                   view |-> after_rmw(mo.th[t].view, mo.wview, weak_inc_order)]]
    /\ UNCHANGED oframe

\* shared_dptr_deleter::operator() of thread t's owner:
\* shared_count.fetch_sub(1, acq_rel) == 1 decides on destroy_and_delete().
OwnerRelease(t) ==
    /\ mo.th[t].st = "owner"
    /\ mo' = [mo EXCEPT !.strong = @ - 1,
                        !.sview = published(mo.th[t].view, @, strong_dec_order),
                        !.th[t] = [st |-> IF mo.strong = 1 THEN "destroy" ELSE "done",
                                   view |-> after_rmw(mo.th[t].view, mo.sview, strong_dec_order)]]
    /\ UNCHANGED oframe

\* control->destroy_and_delete() in thread t: the destructor reads the
\* object; mo.seen keeps the writes it is ordered after.
OwnerDestroy(t) ==
    /\ mo.th[t].st = "destroy"
    /\ mo' = [mo EXCEPT !.seen = mo.th[t].view,
                        !.written = @ \cup {Dtor},
                        !.th[t] = [st |-> "weak_dec", view |-> mo.th[t].view \cup {Dtor}]]
    /\ UNCHANGED oframe

\* weak_count.fetch_sub(1, acq_rel) == 1 decides on deallocate(): the second
\* decrement of operator() (thread in "weak_dec") or ~weak_dptr (an observer).
WeakRelease(t) ==
    /\ mo.th[t].st \in {"weak_dec", "observer"}
    /\ mo' = [mo EXCEPT !.weak = @ - 1,
                        !.wview = published(mo.th[t].view, @, weak_dec_order),
                        !.th[t] = [st |-> IF mo.weak = 1 THEN "deallocate" ELSE "done",
                                   view |-> after_rmw(mo.th[t].view, mo.wview, weak_dec_order)]]
    /\ UNCHANGED oframe

\* control->deallocate() in thread t.
OrderDeallocate(t) ==
    /\ mo.th[t].st = "deallocate"
    /\ mo' = [mo EXCEPT !.freed = TRUE, !.seen = mo.th[t].view, !.th[t].st = "done"]
    /\ UNCHANGED oframe

NextOrder ==
    \/ \E t \in Threads : OwnerWrite(t)
    \/ \E t, n \in Threads : OwnerCopy(t, n)
    \/ \E t, n \in Threads : OwnerObserve(t, n)
    \/ \E t \in Threads : OwnerRelease(t)
    \/ \E t \in Threads : OwnerDestroy(t)
    \/ \E t \in Threads : WeakRelease(t)
    \/ \E t \in Threads : OrderDeallocate(t)

SpecOrder == InitOrder /\ [][NextOrder]_vars

\* ------------------------------------------- shared_dptr_multithreading_test
\* p is slot 1 and w is weak slot 1; thread 0 declares its p2 in slot 2 and
\* thread k >= 1 declares its p2 in slot k + 2.
Mover == 2
Promoters == {i \in SIds : i > 2}

\* shared_dptr<shape, rectangular> p(new rectangle); weak_dptr w(p).
InitMT ==
    /\ sp = [i \in SIds |-> IF i = 1 THEN [live |-> TRUE, ptr |-> 1, ctl |-> 1] ELSE DeadSlot]
    /\ spc = [i \in SIds |-> "idle"]
    /\ loc = [i \in SIds |-> NoLoc]
    /\ outcome = [i \in SIds |-> "none"]
    /\ wp = [w \in WIds |-> IF w = 1 THEN [live |-> TRUE, ptr |-> 1, ctl |-> 1] ELSE DeadSlot]
    /\ wpc = [w \in WIds |-> "idle"]
    /\ strong = [c \in Ctls |-> IF c = 1 THEN 1 ELSE 0]
    /\ weak = [c \in Ctls |-> IF c = 1 THEN 2 ELSE 0]
    /\ cst = [c \in Ctls |-> IF c = 1 THEN "live" ELSE "unused"]
    /\ cobj = [c \in Ctls |-> IF c = 1 THEN 1 ELSE Null]
    /\ deallocs = [c \in Ctls |-> 0]
    /\ allocd = [o \in Objs |-> o = 1]
    /\ dtorCalls = [o \in Objs |-> 0]
    /\ ub = {}
    /\ aborted = FALSE
    /\ ops = 0
    /\ up = [k \in UIds |-> DeadU]
    /\ ExtInit

\* A thread has run its lambda to the end (its p2 is out of scope).
MoverDone == sp[1].ptr = Null /\ ~sp[Mover].live /\ Idle(Mover)
PromoterDone(i) == outcome[i] # "none" /\ ~sp[i].live /\ Idle(i)
ThreadsDone == MoverDone /\ \A i \in Promoters : PromoterDone(i)

NextMT ==
    \* thread 0: shared_dptr<const rectangular> p2 = std::move(p)
    \/ sp[1].ptr # Null /\ SharedMoveCtor(Mover, 1) /\ UNCHANGED ops
    \* thread k: shared_dptr<const rectangular> p2(w)
    \/ \E i \in Promoters : outcome[i] = "none" /\ PromoteBegin(i, 1) /\ UNCHANGED ops
    \/ \E i \in Promoters : CasStep(i)
    \* the end of a thread's lambda: ~p2
    \/ \E i \in Promoters \cup {Mover} : DtorBegin(i) /\ UNCHANGED ops
    \/ \E i \in Promoters \cup {Mover} : RelDtor(i)
    \/ \E i \in Promoters \cup {Mover} : RelWeak(i)
    \* the end of the test after the threads are joined: ~w, then ~p
    \/ ThreadsDone /\ WeakDtorBegin(1) /\ UNCHANGED ops
    \/ WeakFree(1)
    \/ ThreadsDone /\ ~wp[1].live /\ DtorBegin(1) /\ UNCHANGED ops

SpecMT == InitMT /\ [][NextMT]_vars

\* ------------------------------------------- the promotion loop, with fairness
\* What a spurious failure leaves alone: everything but its count.
sframe == <<svars, allocd, dtorCalls, ub, aborted, ops, up, upend, dvars, cv, fp, avars, rs, rm, mo>>

\* compare_exchange_weak fails although shared_count holds the expected
\* value: nothing is stored, the expected value is loaded again (the same
\* value) and the loop goes round.
CasSpurious(i) ==
    /\ Running /\ spc[i] = "cas"
    /\ loc[i].seen # 0
    /\ cst[loc[i].ctl] = "live" /\ strong[loc[i].ctl] = loc[i].seen
    /\ spur[i] < MaxSpurious
    /\ spur' = [spur EXCEPT ![i] = @ + 1]
    /\ UNCHANGED sframe

NextPromo ==
    \/ NextMT
    \/ \E i \in Promoters : CasSpurious(i)

\* A thread inside the loop is scheduled again, and compare_exchange_weak
\* does not fail for ever while shared_count holds the expected value.
FairPromo == \A i \in Promoters : WF_vars(CasStep(i))

LivePromo == InitMT /\ [][NextPromo]_vars /\ FairPromo

\* ------------------------------------------ reaching the control block
\* p.destroy_and_delete() on a shared pointer with a non-null ptr_ (null is
\* undefined): deleter_(*this) releases the share, then ptr_ = nullptr; the
\* deleter's control is left as it was.
DestroyBegin(i) ==
    /\ Running /\ Idle(i) /\ sp[i].live /\ Unread(i)
    /\ sp[i].ptr # Null
    /\ RelStart(i, "destroy", i)
    /\ UNCHANGED <<outcome, wp, wpc, weak, cst, cobj, deallocs, allocd, dtorCalls, aborted>>
    /\ UNCHANGED uvars

\* p.use_count() on a shared pointer: get_control() ?
\* get_control()->shared_count.load(relaxed) : 0.
UseCount(i) ==
    /\ Running /\ Idle(i) /\ sp[i].live
    /\ ub' = IF sp[i].ctl = NoCtl THEN ub ELSE Touch(sp[i].ctl)
    /\ UNCHANGED <<svars, allocd, dtorCalls, aborted>>
    /\ UNCHANGED uvars

\* w.expired() on a weak pointer: use_count() == 0 with get_control() the
\* weak pointer's control_.
WeakExpired(w) ==
    /\ Running /\ wpc[w] = "idle" /\ wp[w].live
    /\ ub' = IF wp[w].ctl = NoCtl THEN ub ELSE Touch(wp[w].ctl)
    /\ UNCHANGED <<svars, allocd, dtorCalls, aborted>>
    /\ UNCHANGED uvars

\* The operations that reach a control block through a shared or a weak
\* pointer: construction, copy, promotion, use_count(), expired(), release,
\* destruction and the explicit destroy_and_delete().
NextReach ==
    \/ \E i \in NewS, o \in NewObj : Budget /\ SharedCtor(i, o)
    \/ \E i \in NewS, j \in SIds : Budget /\ SharedCopyBegin(i, j)
    \/ \E i \in NewS, w \in WIds : Budget /\ PromoteBegin(i, w)
    \/ \E i \in SIds : Budget /\ DtorBegin(i)
    \/ \E i \in SIds : Budget /\ DestroyBegin(i)
    \/ \E i \in SIds : Budget /\ UseCount(i)
    \/ \E i \in SIds : CasStep(i)
    \/ \E i \in SIds : RelDtor(i)
    \/ \E i \in SIds : RelWeak(i)
    \/ \E i \in SIds : RelFree(i)
    \/ \E w \in NewW, j \in SIds : Budget /\ WeakFromShared(w, j)
    \/ \E w \in WIds : Budget /\ WeakExpired(w)
    \/ \E w \in WIds : Budget /\ WeakReset(w)
    \/ \E w \in WIds : Budget /\ WeakDtorBegin(w)
    \/ \E w \in WIds : WeakFree(w)

SpecReach == Init /\ [][NextReach]_vars

\* ------------------- copies, moves, assignments, destructions and observers
NextOwn ==
    \/ \E i \in NewS, o \in NewObj : Budget /\ SharedCtor(i, o)
    \/ \E i \in NewS : Budget /\ SharedCtorNull(i)
    \/ \E i \in NewS, j \in SIds : Budget /\ SharedCopyBegin(i, j)
    \/ \E i \in NewS, j \in SIds : Budget /\ SharedMoveCtor(i, j)
    \/ \E i \in NewS, w \in WIds : Budget /\ PromoteBegin(i, w)
    \/ \E i, j \in SIds : Budget /\ CopyAssignBegin(i, j)
    \/ \E i, j \in SIds : Budget /\ MoveAssignBegin(i, j)
    \/ \E i \in SIds : Budget /\ DtorBegin(i)
    \/ \E i \in SIds : CasStep(i)
    \/ \E i \in SIds : RelDtor(i)
    \/ \E i \in SIds : RelWeak(i)
    \/ \E i \in SIds : RelFree(i)
    \/ \E i \in SIds : AssignStep(i)
    \/ \E w \in NewW, j \in SIds : Budget /\ WeakFromShared(w, j)
    \/ \E w \in NewW, v \in WIds : Budget /\ WeakCopy(w, v)
    \/ \E w \in WIds : Budget /\ WeakDtorBegin(w)
    \/ \E w \in WIds : WeakFree(w)

SpecOwn == Init /\ [][NextOwn]_vars


Next ==
    \/ \E i \in NewS, o \in NewObj : Budget /\ SharedCtor(i, o)
    \/ \E i \in NewS : Budget /\ SharedCtorNull(i)
    \/ \E i \in SIds : Budget /\ DtorBegin(i)
    \/ \E i, j \in SIds : Budget /\ CopyAssignBegin(i, j)
    \/ \E i, j \in SIds : Budget /\ MoveAssignBegin(i, j)
    \/ \E i \in NewS, j \in SIds : Budget /\ SharedMoveCtor(i, j)
    \/ \E i \in SIds : RelDtor(i)
    \/ \E i \in SIds : RelWeak(i)
    \/ \E i \in SIds : RelFree(i)
    \/ \E i \in SIds : AssignStep(i)
    \/ \E i \in NewS, j \in SIds : Budget /\ SharedCopyBegin(i, j)
    \/ \E i \in NewS, w \in WIds : Budget /\ PromoteBegin(i, w)
    \/ \E i \in NewS, j \in SIds, a \in Objs, mv \in BOOLEAN : Budget /\ AliasBegin(i, j, a, mv)
    \/ \E i \in SIds : CasStep(i)
    \/ \E i \in NewS, w \in WIds : Budget /\ Lock(i, w)
    \/ \E w \in NewW, j \in SIds : Budget /\ WeakFromShared(w, j)
    \/ \E w \in NewW, v \in WIds : Budget /\ WeakCopy(w, v)
    \/ \E w \in NewW, v \in WIds : Budget /\ WeakMove(w, v)
    \/ \E w \in WIds : Budget /\ WeakDtorBegin(w)
    \/ \E w \in WIds : WeakFree(w)
    \/ \E w \in WIds : Budget /\ WeakReset(w)
    \/ \E w, v \in WIds : Budget /\ WeakCopyAssign(w, v)
    \/ \E w, v \in WIds : Budget /\ WeakMoveAssign(w, v)

Spec == Init /\ [][Next]_vars

\* ------------------------------------------------------------ claim C1
\* C1: an object owned through shared_dptr is destroyed exactly once, and
\* exactly when its last shared owner is released: never more than once, never
\* while a shared owner of its control block is live, and always once no
\* owner remains and no release is still running its destructor call.
C1_DestroyedExactlyOnce ==
    /\ \A o \in Objs : dtorCalls[o] <= 1
    /\ \A c \in Ctls : cst[c] # "unused" =>
        /\ cobj[c] = Null => Owners(c) = {}
        /\ (Owners(c) = {} /\ (\A i \in SIds : Idle(i))) => cobj[c] = Null

\* ------------------------------------------------------------ claim C2
\* C2: in the multithreading test every promotion attempt ends either in
\* success or in std::bad_weak_ptr, so when all threads are done successes +
\* failures = K - 1; a successful promotion holds the object alive, a failed
\* one constructs nothing, and the destructor runs exactly once (never twice,
\* and once by the time every owner is gone).
C2_Successes == {i \in Promoters : outcome[i] = "ok"}
C2_Failures == {i \in Promoters : outcome[i] = "expired"}
C2_MultithreadingTest ==
    /\ dtorCalls[1] <= 1
    /\ ub = {}
    /\ \A i \in Promoters :
        /\ (sp[i].live /\ Idle(i)) => outcome[i] = "ok" /\ sp[i].ptr = 1 /\ dtorCalls[1] = 0
        /\ outcome[i] = "expired" => ~sp[i].live
        /\ (outcome[i] = "none" /\ Idle(i)) =>
              ENABLED (PromoteBegin(i, 1) /\ UNCHANGED ops)
        /\ spc[i] = "cas" => ENABLED CasStep(i)
    /\ ThreadsDone =>
        /\ Cardinality(C2_Successes) + Cardinality(C2_Failures) = NShared - 2
        /\ dtorCalls[1] = 1
C2_Witness ==
    /\ ThreadsDone
    /\ C2_Successes # {} /\ C2_Failures # {}
    /\ dtorCalls[1] = 1

\* ------------------------------------------------------------ claim C3
\* C3: a promotion (a step that leaves the compare-exchange loop with a share
\* of the control block) happens only at a positive strong count, which it
\* raises by one; a promoter that loaded a positive count before the final
\* release therefore fails its exchange and never raises the count from 0.
C3_Success(i) ==
    /\ spc[i] = "cas" /\ spc'[i] = "idle"
    /\ sp'[i].live /\ sp'[i].ctl # NoCtl
C4_Reporters(c) ==
    {i \in SIds : sp[i].live /\ sp[i].ctl = c} \cup {-w : w \in {v \in WIds : wp[v].live /\ wp[v].ctl = c}}
C4_UseCountIsOwners ==
    (\A i \in SIds : Idle(i)) /\ (\A w \in WIds : wpc[w] = "idle") =>
        /\ \A c \in Ctls : (cst[c] = "live" /\ C4_Reporters(c) # {}) =>
              use_count(c) = Cardinality(Owners(c))
        /\ use_count(NoCtl) = 0

C6_Frame == UNCHANGED <<strong, weak, cst, cobj, deallocs, dtorCalls>>
C6_ExpiredPromotionThrows ==
    [][\A i \in SIds :
        /\ \A w \in WIds :
            (PromoteBegin(i, w) /\ (wp[w].ctl # NoCtl => cst[wp[w].ctl] = "live") /\ expired(w)) =>
                /\ C6_Frame
                /\ ~sp'[i].live
                /\ \/ outcome'[i] = "expired" /\ spc'[i] = "idle"
                   \/ spc'[i] = "cas" /\ loc'[i].op = "promote" /\ loc'[i].seen = 0
        /\ (spc[i] = "cas" /\ loc[i].op = "promote" /\ loc[i].seen = 0 /\ spc'[i] # "cas") =>
                /\ C6_Frame
                /\ ~sp'[i].live
                /\ outcome'[i] = "expired" /\ spc'[i] = "idle"]_vars
\* A promotion from a weak pointer of a destroyed object has thrown.
C6_Witness ==
    \E i \in SIds, w \in WIds :
        /\ outcome[i] = "expired" /\ ~sp[i].live /\ Idle(i)
        /\ wp[w].live /\ wp[w].ctl # NoCtl /\ cst[wp[w].ctl] = "live"
        /\ strong[wp[w].ctl] = 0 /\ cobj[wp[w].ctl] = Null

\* ------------------------------------------------------------ claim C7
\* C7: lock() on an expired weak pointer returns an empty shared pointer; on a
\* non-expired one it returns a shared pointer with the weak pointer's control
\* block and raises that block's strong count by exactly 1.
C7_LockSharesControl ==
    [][\A i \in SIds, w \in WIds :
        (Lock(i, w) /\ (wp[w].ctl # NoCtl => cst[wp[w].ctl] = "live")) =>
            IF expired(w)
            THEN sp'[i].ptr = Null /\ sp'[i].ctl = NoCtl /\ strong' = strong
            ELSE /\ sp'[i].ctl = wp[w].ctl
                 /\ strong' = [strong EXCEPT ![wp[w].ctl] = @ + 1]]_vars

\* ------------------------------------------------------------ claim C8
\* C8: a control block is deallocated exactly when its weak count reaches
\* zero: a block whose weak count is zero is deallocated or is being
\* deallocated by the operation that made the final decrement; a deallocated
\* block had its object destroyed; no block is deallocated twice.
C8_Deallocating(c) ==
    \/ \E i \in SIds : spc[i] = "rel_free" /\ loc[i].ctl = c
    \/ \E w \in WIds : wpc[w] = "free" /\ wp[w].ctl = c
C8_DeallocatedAtWeakZero ==
    \A c \in Ctls :
        /\ (cst[c] = "live" /\ weak[c] = 0) => C8_Deallocating(c)
        /\ cst[c] = "freed" => cobj[c] = Null
        /\ deallocs[c] <= 1

\* ------------------------------------------------------------ claim C9
\* C9: an aliasing construction from an lvalue that finds the source's
\* control block alive yields a pointer with the source's control block and
\* the aliased address, raises use_count() by 1 and leaves the source as it
\* was; and every destructor call is made on the object stored in the
\* control block being released, whatever address the releasing pointer holds.
C9_AliasDone(i) ==
    /\ spc[i] = "cas" /\ loc[i].op = "alias" /\ cst[loc[i].ctl] = "live"
    /\ spc'[i] = "idle" /\ sp'[i].ctl # NoCtl
C10_Holders(o) == {k \in UIds : up[k].live /\ up[k].ptr = o}
C10_UniqueMoveTransfers ==
    /\ [](\A o \in Objs :
            /\ Cardinality(C10_Holders(o)) <= 1
            /\ allocd[o] => dtorCalls[o] = (IF C10_Holders(o) = {} THEN 1 ELSE 0))
    /\ [][\A k \in UIds :
            /\ \A j \in UIds, ifs \in IfSets : UniqueMoveCtor(k, j, ifs) =>
                  /\ up'[j].live /\ up'[j].ptr = Null
                  /\ up'[k].ptr = up[j].ptr /\ up'[k].ifs \subseteq up[j].ifs
                  /\ dtorCalls' = dtorCalls
            /\ (UniqueDtor(k) /\ up[k].ptr = Null) => dtorCalls' = dtorCalls]_vars
\* The moved-to pointer went out of scope and destroyed the object; the
\* moved-from pointer is still in scope and null.
C10_Witness ==
    \E j \in UIds, o \in Objs :
        /\ up[j].live /\ up[j].ptr = Null
        /\ allocd[o] /\ dtorCalls[o] = 1
        /\ \A k \in UIds : k # j => ~up[k].live

\* ------------------------------------------------------------------- C11
\* The steps at which an assignment to unique pointer k starts and ends.
C11_Begins(k) == upend[k] = NoPend /\ upend'[k] # NoPend
C11_Ends(k) == upend[k] # NoPend /\ upend'[k] = NoPend

C11_Order ==
    /\ \A o \in Objs : dtorCalls[o] <= 1
    /\ \A k \in UIds : upend[k] # NoPend =>
          /\ up[k].ptr = Null
          /\ upend[k].op = "ptr" =>
                /\ dtorCalls[upend[k].new] = 0
                /\ \A m \in UIds : up[m].ptr # upend[k].new

C11_Step ==
    \A k \in UIds :
       /\ C11_Begins(k) =>
             dtorCalls' = IF up[k].ptr = Null THEN dtorCalls
                          ELSE [dtorCalls EXCEPT ![up[k].ptr] = 1]
       /\ C11_Ends(k) =>
             /\ dtorCalls' = dtorCalls
             /\ upend[k].op = "ptr" => up'[k].ptr = upend[k].new
             /\ upend[k].op = "move" =>
                   /\ up'[k].ptr = up[upend[k].src].ptr
                   /\ up'[upend[k].src].ptr = Null

\* C11: reset(ptr), operator=(ptr) and move-assignment on a unique pointer
\* destroy and delete the object held so far exactly once, and do so before
\* the pointer takes the new object (while the assignment runs the pointer
\* is null and the new object is untouched); when the assignment ends the
\* pointer holds the new address and a move-assignment's source is null.
C11_AssignDestroysOldFirst == []C11_Order /\ [][C11_Step]_vars

\* A move-assignment has destroyed the object of its target and is about to
\* take the object its source still holds.
C11_Witness ==
    \E k \in UIds :
       /\ upend[k].op = "move"
       /\ up[upend[k].src].ptr # Null
       /\ \E o \in Objs : o # up[upend[k].src].ptr /\ dtorCalls[o] = 1

\* ------------------------------------------------------------------- C12
\* The events the step appends to the log of object o.
C12_New(o) == SubSeq(log'[o], Len(log[o]) + 1, Len(log'[o]))

\* The steps that use destroy_and_delete() on pointer d: the explicit call,
\* the destructor and an assignment over an owning non-null pointer.
C12_Uses(d) ==
    /\ dp[d].live /\ dp[d].ptr # Null
    /\ log'[dp[d].ptr] # log[dp[d].ptr]
    /\ ~(dp'[d].live /\ dp'[d].ptr = dp[d].ptr)

\* C12: a step that uses destroy_and_delete() on a pointer with a deleter
\* that is not destroying calls destroy() and then the deleter; with a
\* destroying deleter it calls the deleter once, without a destroy() call;
\* either way the destructor runs once in the step, the pointer is null or
\* re-pointed afterwards and no other object is touched.
C12_DestroyAndDeleteProtocol ==
    [][\A d \in DIds : C12_Uses(d) =>
          LET o == dp[d].ptr IN
          /\ C12_New(o) = IF dp[d].del = "destroying"
                          THEN <<"deleter", "dtor", "free">>
                          ELSE <<"destroy", "dtor", "deleter", "free">>
          /\ dtorCalls'[o] = dtorCalls[o] + 1
          /\ dp'[d].live => dp'[d].ptr # o
          /\ \A q \in Objs \ {o} : log'[q] = log[q]]_vars

\* destroy_and_delete() with a deleter that is not destroying has run to
\* its end on an object, which was destroyed exactly once.
C12_Witness ==
    \E o \in Objs :
       /\ log[o] = <<"destroy", "dtor", "deleter", "free">>
       /\ dtorCalls[o] = 1
       /\ \A d \in DIds : dp[d].live => dp[d].ptr = Null

\* ------------------------------------------------------------------- C13
\* The step nulls a non-null pointer that stays in scope: a release().
C13_Released(d) == dp[d].live /\ dp'[d].live /\ dp[d].ptr # Null /\ dp'[d].ptr = Null
C13_SharedReleased(i) ==
    /\ spc[i] = "idle" /\ spc'[i] = "idle" /\ sp[i].live /\ sp'[i].live
    /\ sp[i].ptr # Null /\ sp'[i].ptr = Null

\* A pointer that holds nothing goes out of scope.
C13_NullDestroyed(d) == dp[d].live /\ ~dp'[d].live /\ dp[d].ptr = Null
C13_SharedNullDestroyed(i) ==
    spc[i] = "idle" /\ sp[i].live /\ ~sp'[i].live /\ sp[i].ptr = Null

\* No destructor and no deleter runs in the step.
C13_Quiet == dtorCalls' = dtorCalls /\ log' = log /\ strong' = strong

C13_Alive ==
    /\ \A d \in DIds : ret[d] # Null => dtorCalls[ret[d]] = 0 /\ log[ret[d]] = <<>>
    /\ \A i \in SIds : sret[i] # Null => dtorCalls[sret[i]] = 0

C13_Step ==
    /\ \A d \in DIds :
          /\ C13_Released(d) => ret'[d] = dp[d].ptr /\ C13_Quiet
          /\ C13_NullDestroyed(d) => C13_Quiet
    /\ \A i \in SIds :
          /\ C13_SharedReleased(i) => sret'[i] = sp[i].ptr /\ C13_Quiet
          /\ C13_SharedNullDestroyed(i) => C13_Quiet

\* C13: release() on a borrowed, unique or shared pointer returns the held
\* address and nulls the pointer without a destructor or deleter call; the
\* later destruction of the released pointer makes neither call, and the
\* released object is never destroyed by the pointers.
C13_ReleaseGivesUp == []C13_Alive /\ [][C13_Step]_vars

\* A pointer that released its object has gone out of scope and the object
\* is intact.
C13_Witness ==
    \E d \in DIds :
       /\ ~dp[d].live /\ ret[d] # Null
       /\ dtorCalls[ret[d]] = 0 /\ log[ret[d]] = <<>>

\* ------------------------------------------------------------------- C14
\* The step constructs borrowed pointer d (from a T* or from another dptr),
\* assigns another non-null address over it, or ends its lifetime.
C14_Automatic(d) ==
    \/ ~dp[d].live /\ dp'[d].live /\ dp'[d].own = "borrowed"
    \/ /\ dp[d].live /\ dp[d].own = "borrowed"
       /\ \/ ~dp'[d].live
          \/ dp'[d].ptr \notin {Null, dp[d].ptr}

\* The pointers that hold object o.
C14_Holders(o) == {d \in DIds : dp[d].live /\ dp[d].ptr = o}

\* Object o is held by borrowed pointers only.
C14_Borrowed(o) == \A d \in C14_Holders(o) : dp[d].own = "borrowed"

\* C14: no construction, copy, assignment over or destruction of a borrowed
\* dptr runs a destructor or a deleter; a step that destroys an object held
\* by borrowed pointers only is a call on one of these pointers, which
\* changes no other pointer and at most nulls the pointer it is called on.
C14_BorrowedNeverDestroys ==
    [][/\ \A d \in DIds : C14_Automatic(d) => log' = log /\ dtorCalls' = dtorCalls
       /\ \A o \in Objs : log'[o] # log[o] /\ C14_Borrowed(o) =>
             \E d \in C14_Holders(o) :
                dp' = dp \/ dp' = [dp EXCEPT ![d].ptr = Null]]_vars

\* dptr_test: of two borrowed pointers to one object, destroy_and_delete()
\* was called on one; the other still holds the address.
C14_Witness ==
    \E d, e \in DIds, o \in Objs :
       /\ dp[d].live /\ dp[d].own = "borrowed" /\ dp[d].ptr = Null
       /\ dp[e].live /\ dp[e].own = "borrowed" /\ dp[e].ptr = o
       /\ dtorCalls[o] = 1 /\ "free" \in {log[o][n] : n \in DOMAIN log[o]}

\* ------------------------------------------------------------------- C15
\* C15: a construction or an assignment from another dptr resets the source
\* to null exactly when the source is not borrowed and was bound as an
\* rvalue; in every other case, a move from a borrowed dptr included, the
\* source's pointer is left unchanged.
C15_SourceResetRule ==
    [][bind' # NoBind =>
          LET j == bind'.src IN
          dp'[j].ptr = IF bind'.mv /\ dp[j].own # "borrowed" THEN Null ELSE dp[j].ptr]_vars

\* ------------------------------------------------------------------- C16
\* B requests only interfaces of A and A's base pointer converts to B's.
C16_InterfacesAndBase ==
    cv.b.ifs \subseteq cv.a.ifs /\ (cv.a.cst => cv.b.cst)

C17_Own(o, f) == [impl |-> [typ |-> otype[o], ifc |-> f], self |-> o]

C17_Dispatch ==
    /\ \A d \in DIds : dp[d].live /\ dp[d].ptr # Null =>
          \A f \in dp[d].ifs : dptr_subscript(d, f) = C17_Own(dp[d].ptr, f)
    /\ \A k \in DIds : fp[k].live =>
          /\ derived_from(otype[fp[k].obj], fp[k].styp)
          /\ \A f \in Implements(fp[k].styp) :
                fptr_subscript(k, f) = C17_Own(fp[k].obj, f)

\* The step constructs pointer d from pointer j.
C17_Narrows(d, j) == ~dp[d].live /\ dp'[d].live /\ bind'.src = j

C17_Keeps ==
    \A d, j \in DIds : C17_Narrows(d, j) =>
       /\ dp'[d].ptr = dp[j].ptr
       /\ dp'[d].ifs \subseteq dp[j].ifs
       /\ \A f \in dp'[d].ifs : dp'[d].vt[f] = dp[j].vt[f]

\* C17: a dptr or fptr made from a T* (the address of a T) and indexed by a
\* slot of a requested interface dispatches to T's implementation bound to
\* the object's address, also through an fptr of a base type of T and after
\* narrowing conversions, which keep the address and, for every retained
\* interface, the ivtable pointer.
C17_DispatchesToImplementation == []C17_Dispatch /\ [][C17_Keeps]_vars

\* A pointer with fewer interfaces than the type of its object implements
\* was made from a pointer with more, and still dispatches.
C17_Witness ==
    \E d, j \in DIds :
       /\ bind.src = j /\ dp[d].live /\ dp[d].ptr # Null
       /\ dp[d].ifs # dp[j].ifs /\ dp[d].ifs \subseteq dp[j].ifs
       /\ \A f \in dp[d].ifs : dptr_subscript(d, f) = C17_Own(dp[d].ptr, f)

\* ------------------------------------------------------------------- C18
\* C18: an element pointer made by base + i with 0 <= i < M has the address
\* base_address + i * S, S being the element size of the vtable, carries the
\* ivtable pointers of the array pointer and so dispatches with the
\* element's address bound, is borrowed and has the disabled deleter; no
\* step that makes or ends an element pointer destroys anything.
C18_ElementPointers ==
    /\ [](\A e \in EIds : ep[e].live =>
            /\ ep[e].idx < ar.len
            /\ ep[e].ptr = ar.base + ep[e].idx * ar.size
            /\ ep[e].vt = fill_ivtables(Implements(ar.typ), ar.typ)
            /\ ep[e].own = "borrowed" /\ ep[e].del = "disabled_deleter")
    /\ [][ep' # ep => ar' = ar /\ dtorCalls' = dtorCalls]_vars

\* unique_dptr_array_test: p + 1 on an array of elements larger than one byte.
C18_Witness ==
    \E e \in EIds :
       /\ ep[e].live /\ ep[e].idx = 1 /\ ar.size > 1
       /\ ep[e].ptr = ar.base + ar.size

\* ------------------------------------------------------------------- C19
\* C19: the array deleter has run at most once, and once it has, every one
\* of the M elements was destroyed exactly once; the destruction of a
\* non-null unique array pointer runs it, and a step that makes or ends an
\* element pointer, before or after, runs no destructor.
C19_ArrayDestroyedOnce ==
    /\ [](/\ ar.adel <= 1
          /\ \A n \in Elems : ar.edtor[n] = IF n < ar.len THEN ar.adel ELSE 0
          /\ ar.made /\ ~ar.p.live => ar.adel = 1)
    /\ [][/\ ar.p.live /\ ~ar'.p.live /\ ar.p.ptr # Null => ar'.adel = ar.adel + 1
          /\ ep' # ep => ar'.edtor = ar.edtor /\ ar'.adel = ar.adel]_vars

\* The array pointer is gone, every element of its array of more than one
\* element was destroyed once, and an element pointer obtained before is
\* still in scope.
C19_Witness ==
    /\ ar.made /\ ~ar.p.live /\ ar.len > 1 /\ ar.adel = 1
    /\ \A n \in Elems : n < ar.len => ar.edtor[n] = 1
    /\ \E e \in EIds : ep[e].live

\* ------------------------------------------------------------------- C20
\* The callers that hold a live permit.
C20_Live == {u \in Users : rs.us[u].held}
\* The callers whose semaphore operation succeeded and has not returned yet.
C20_Taken == {u \in Users : rs.us[u].pc = "issue" /\ rs.us[u].took}

C20_Quota ==
    /\ Cardinality(C20_Live) <= rs.quota
    /\ rs.sem + Cardinality(C20_Live) + Cardinality(C20_Taken) = rs.quota
    /\ \A u \in Users :
          rs.us[u].pc = "try_acquire" => ENABLED (Take(u) \/ Fail(u))

C20_Step ==
    \A u \in Users :
       /\ ~rs.us[u].held /\ rs'.us[u].held => rs.us[u].pc = "issue" /\ rs.us[u].took
       /\ rs.us[u].pc = "try_acquire" /\ rs'.us[u].pc = "issue"
             /\ Cardinality(C20_Live) = rs.quota => ~rs'.us[u].took
       /\ rs.us[u].pc = "issue" /\ rs'.us[u].pc = "idle" /\ ~rs.us[u].took =>
             rs'.us[u].res = "nullopt" /\ ~rs'.us[u].held

\* C20: a unique_resource constructed with quota Q never has more than Q
\* live permits: a call returns a permit only after it took a unit of the
\* semaphore, and try_acquire() is never blocked and, while Q permits are
\* live, ends with std::nullopt.
C20_PermitsWithinQuota == []C20_Quota /\ [][C20_Step]_vars

\* sanity_test: with quota 1 a permit from acquire() is alive and a
\* try_acquire() has returned std::nullopt.
C20_Witness ==
    /\ rs.quota = 1
    /\ \E u, v \in Users :
          /\ rs.us[u].held /\ rs.us[u].res = "permit"
          /\ rs.us[v].res = "nullopt" /\ rs.us[v].pc = "idle"

\* ------------------------------------------------------------------- C21
\* The callers with a live write accessor, and those with a live read one.
C21_Writers == {u \in Users : rm.acc[u] \in {"write", "append", "written"}}
C21_Readers == {u \in Users : rm.acc[u] = "read"}
\* The thread's attempt failed.
C21_Failed(u) == rs.us[u].res = "nullopt"

C21_Exclusive ==
    /\ Cardinality(C21_Writers) <= 1
    /\ C21_Writers # {} => C21_Readers = {}
    /\ \A u \in Users :
          /\ u \in C21_Writers <=> rm.writer = u
          /\ u \in C21_Readers <=> u \in rm.readers
          /\ rm.base[u] = rm.done[u]
          /\ C21_Failed(u) => rm.base[u] = 0 /\ rm.acc[u] = "none"

C21_Step ==
    /\ rm'.base # rm.base =>
          \E u \in Users :
             /\ rm.writer = u /\ rs.us[u].held /\ ~C21_Failed(u)
             /\ rm'.base = [rm.base EXCEPT ![u] = @ + 1]
    /\ \A u \in Users :
          /\ rm.writer = u /\ rm'.writer # u => rm.acc[u] = "written" /\ rm'.acc[u] = "none"
          /\ u \in rm.readers /\ u \notin rm'.readers => rm.acc[u] = "read" /\ rm'.acc[u] = "none"

\* C21: with Sync = true a write accessor holds the mutex exclusively and a
\* read accessor holds it shared from its construction to its destruction,
\* so no write accessor is live together with another accessor; the string
\* always holds every append every holder has made, and a thread whose
\* acquisition failed never changes it.
C21_SynchronizedAccess == []C21_Exclusive /\ [][C21_Step]_vars

\* sync_test at its end: two holders have made all their appends and have
\* destroyed their permits, a third thread failed, and the string holds all
\* the characters of the two and none of the third.
C21_Witness ==
    \E u, v, x \in Users :
        /\ u # v
        /\ rm.base[u] = MaxAppend /\ rm.base[v] = MaxAppend
        /\ C21_Failed(x) /\ rm.base[x] = 0
        /\ \A y \in Users : ~rs.us[y].held /\ rs.us[y].pc = "idle"

\* ------------------------------------------------------------------- C22
\* Caller u waits in sem_.acquire().
C22_Blocked(u) == rs.us[u].pc = "acquire"
\* Caller u's permit is destroyed by this step.
C22_Destroyed(u) == rs.us[u].held /\ ~rs'.us[u].held
\* No permit is alive and no call is under way.
C22_AllDestroyed == \A u \in Users : ~rs.us[u].held /\ rs.us[u].pc = "idle"

C22_Units ==
    /\ C22_AllDestroyed => rs.sem = rs.quota
    /\ rs.sem > 0 =>
          \A u \in Users : rs.us[u].pc \in {"acquire", "try_acquire"} => ENABLED Take(u)

C22_Step == \A u \in Users : C22_Destroyed(u) => rs'.sem = rs.sem + 1

C23_NeverWaits ==
    /\ \A i \in SIds :
          /\ spc[i] = "cas" => ENABLED CasStep(i)
          /\ spc[i] = "rel_dtor" => ENABLED RelDtor(i)
          /\ spc[i] = "rel_weak" => ENABLED RelWeak(i)
          /\ spc[i] = "rel_free" => ENABLED RelFree(i)
    /\ \A w \in WIds : wpc[w] = "free" => ENABLED WeakFree(w)
\* A promotion attempt on slot i has ended, in success or in std::bad_weak_ptr.
C23_Ended(i) == spc[i] = "idle" /\ outcome[i] \in {"ok", "expired"}
\* This step is a failed exchange of the promotion into slot i.
C23_FailedExchange(i) ==
    /\ spc[i] = "cas" /\ spc'[i] = "cas" /\ loc[i].seen # 0
    /\ loc'[i] # loc[i] \/ spur'[i] # spur[i]
\* Every counter changes by exactly one in a step that changes it.
C23_OneStep ==
    \A c \in Ctls :
        /\ strong'[c] # strong[c] => strong'[c] \in {strong[c] + 1, strong[c] - 1}
        /\ weak'[c] # weak[c] => weak'[c] \in {weak[c] + 1, weak[c] - 1}

\* C23 as stated: no operation waits for another thread, every counter
\* update is one atomic step, every promotion attempt ends, and a failed
\* compare-exchange means that another thread has changed the strong count.
C23_FailureMeansProgress ==
    /\ []C23_NeverWaits
    /\ [][C23_OneStep]_vars
    /\ \A i \in Promoters : (spc[i] = "cas") ~> C23_Ended(i)
    /\ [][\A i \in Promoters :
            C23_FailedExchange(i) => strong[loc[i].ctl] # loc[i].seen]_vars

\* C23, amended: no operation waits for another thread, every counter
\* update is one atomic step, every promotion attempt ends, and a failed
\* compare-exchange means that another thread has changed the strong count
\* or that compare_exchange_weak failed spuriously; after a failure that
\* found a changed count the loop goes on with the value it found.
C23_LockFree ==
    /\ []C23_NeverWaits
    /\ [][C23_OneStep]_vars
    /\ \A i \in Promoters : (spc[i] = "cas") ~> C23_Ended(i)
    /\ [][\A i \in Promoters :
            C23_FailedExchange(i) =>
                \/ strong[loc[i].ctl] # loc[i].seen /\ loc'[i].seen = strong[loc[i].ctl]
                                                     /\ spur'[i] = spur[i]
                \/ strong[loc[i].ctl] = loc[i].seen /\ loc'[i] = loc[i]
                                                     /\ strong' = strong]_vars

\* One promoter has ended in success after a spurious failure, and its
\* success has changed the count another promoter loaded, whose next
\* exchange therefore fails.
C23_Witness ==
    \E i, j \in Promoters :
        /\ spur[j] > 0 /\ C23_Ended(j) /\ outcome[j] = "ok"
        /\ spc[i] = "cas" /\ loc[i].seen # 0
        /\ strong[loc[i].ctl] # loc[i].seen /\ strong[loc[i].ctl] > 0

\* ------------------------------------------------------------------- C24
\* The writes made through owners that have been released.
C24_Released == {t \in Threads : t \in mo.written /\ mo.th[t].st \notin {"unborn", "owner"}}

C24_Step ==
    \A t \in Threads :
        /\ OwnerDestroy(t) =>
              /\ mo.written \subseteq mo.th[t].view
              /\ \A u \in Threads : mo.th[u].st # "owner"
        /\ OrderDeallocate(t) =>
              /\ mo.written \subseteq mo.th[t].view /\ Dtor \in mo.th[t].view
              /\ \A u \in Threads : mo.th[u].st \in {"unborn", "done"} \/ u = t

\* C24: the strong decrement that can trigger destruction and the weak
\* decrement that can trigger deallocation are acquire-release, so every
\* write made through an owner, and the destruction itself, happens before
\* the destruction resp. the deallocation that follows the final decrement;
\* the increments are relaxed and this still holds.
C24_DestroyerObservesWrites ==
    /\ [](C24_Released \subseteq mo.sview)
    /\ [][C24_Step]_vars

\* The block was deallocated by an observer's thread, which is ordered after
\* the destructor and after the writes of two owners, one of them a copy
\* made with a relaxed increment.
C24_Witness ==
    /\ mo.freed /\ Dtor \in mo.seen
    /\ Cardinality(mo.seen \cap Threads) >= 2
    /\ \E t \in Threads : mo.th[t].st = "done" /\ t \notin mo.written /\ mo.seen \subseteq mo.th[t].view

\* ------------------------------------------------------------------- C25
\* The live weak observers attached to control block c.
C25_Observers(c) == {w \in WIds : wp[w].live /\ wpc[w] = "idle" /\ wp[w].ctl = c}
\* The strong owners' share of the weak count of c: held until the release
\* that took the strong count to zero has destroyed the object and made its
\* weak decrement.
C25_Extra(c) ==
    IF cobj[c] # Null \/ \E i \in SIds : spc[i] \in {"rel_dtor", "rel_weak"} /\ loc[i].ctl = c
    THEN 1 ELSE 0

C25_Counts ==
    \A c \in Ctls : cst[c] = "live" =>
        /\ strong[c] >= 0 /\ weak[c] >= 0
        /\ weak[c] = Cardinality(C25_Observers(c)) + C25_Extra(c)

C25_Step ==
    /\ \A i \in SIds, o \in Objs : SharedCtor(i, o) =>
          /\ cst[NextCtl] = "unused" /\ cst'[NextCtl] = "live"
          /\ sp'[i].ctl = NextCtl /\ strong'[NextCtl] = 1 /\ weak'[NextCtl] = 1
    /\ \A i \in SIds : SharedCtorNull(i) => sp'[i].ctl = NoCtl /\ cst' = cst
    /\ \A c \in Ctls : (cst[c] = "live" /\ C25_Extra(c) = 1 /\ C25_Extra(c)' = 0) =>
          /\ cobj[c] = Null
          /\ \E i \in SIds : spc[i] = "rel_weak" /\ loc[i].ctl = c /\ spc'[i] # "rel_weak"

C26_Empty == [live |-> TRUE, ptr |-> Null, ctl |-> NoCtl]
\* The source's control block is allocated, or the source has none.
C26_Sound(j) == sp[j].ctl = NoCtl \/ cst[sp[j].ctl] = "live"
\* This step ends a move assignment to slot i from another slot.
C26_Assigned(i) ==
    /\ spc[i] # "idle" /\ loc[i].op = "massign" /\ loc[i].src # i
    /\ spc'[i] = "idle"
\* Move construction: no counter changes, the target has what the source
\* had and the source is empty.
C26_MoveCtor ==
    \A i, j \in SIds : (SharedMoveCtor(i, j) /\ C26_Sound(j)) =>
        /\ strong' = strong /\ weak' = weak
        /\ sp'[i].ptr = sp[j].ptr /\ sp'[i].ctl = sp[j].ctl
        /\ sp'[j] = C26_Empty
\* The destruction of an empty pointer changes no counter.
C26_EmptyDtor ==
    \A j \in SIds : (DtorBegin(j) /\ sp[j] = C26_Empty) =>
        strong' = strong /\ weak' = weak /\ cst' = cst /\ dtorCalls' = dtorCalls

\* C26 as stated: a move construction or move assignment between shared
\* pointers leaves the strong and weak counts of the source's control block
\* unchanged, the source is empty afterwards and its destruction changes no
\* counter.
C26_MoveChangesNoCount ==
    [][/\ C26_MoveCtor
       /\ C26_EmptyDtor
       /\ \A i, j \in SIds : (i # j /\ MoveAssignBegin(i, j) /\ C26_Sound(j) /\ C26_Sound(i)) =>
             /\ sp[j].ctl # NoCtl =>
                   /\ strong'[sp[j].ctl] = strong[sp[j].ctl]
                   /\ weak'[sp[j].ctl] = weak[sp[j].ctl]
             /\ spc'[i] = "idle" => sp'[j] = C26_Empty]_vars

\* C26, amended: a move construction changes no counter; a move assignment
\* first releases the share the target holds, as the target's destruction
\* would (changing only the counters of the target's control block, which
\* may be the source's), and then takes the source's pointer and control
\* block without changing a counter; the source is empty afterwards and its
\* destruction changes no counter.
C26_MoveTransfersShare ==
    [][/\ C26_MoveCtor
       /\ C26_EmptyDtor
       /\ \A i, j \in SIds : (i # j /\ MoveAssignBegin(i, j) /\ C26_Sound(j) /\ C26_Sound(i)) =>
             /\ weak' = weak
             /\ IF sp[i].ptr = Null \/ sp[i].ctl = NoCtl
                THEN strong' = strong
                ELSE strong' = [strong EXCEPT ![sp[i].ctl] = @ - 1]
             /\ spc'[i] = "idle" =>
                   /\ sp'[j] = C26_Empty
                   /\ sp'[i].ptr = sp[j].ptr /\ sp'[i].ctl = sp[j].ctl
       /\ \A i \in SIds : (C26_Assigned(i) /\ cst[loc[i].ctl] = "live") =>
             LET j == loc[i].src IN
             /\ strong' = strong
             /\ \A c \in Ctls : c # loc[i].ctl => weak'[c] = weak[c]
             /\ sp'[j] = C26_Empty
             /\ sp'[i].ptr = sp[j].ptr /\ sp'[i].ctl = sp[j].ctl]_vars

\* A pointer to one object was move-assigned from a pointer to another: the
\* first object is destroyed, the target holds the second object as its only
\* owner and the source is empty.
C26_Witness ==
    \E i, j \in SIds, o, q \in Objs :
        /\ i # j /\ o # q
        /\ dtorCalls[o] = 1 /\ dtorCalls[q] = 0
        /\ Idle(i) /\ sp[i].live /\ sp[i].ptr = q /\ sp[i].ctl # NoCtl
        /\ cst[sp[i].ctl] = "live" /\ strong[sp[i].ctl] = 1 /\ cobj[sp[i].ctl] = q
        /\ Idle(j) /\ sp[j] = C26_Empty
        /\ ub = {}

\* ------------------------------------------------------------------- C27
\* This step ends the copy construction of slot i.
C27_Copied(i) == spc[i] = "cas" /\ loc[i].op = "copy" /\ spc'[i] = "idle"

\* C27: the copy construction from an empty shared pointer yields an empty
\* shared pointer (use_count() == 0) and raises no error; the copy
\* construction from a non-empty one succeeds and raises the strong count of
\* its control block by exactly 1.
C27_CopyOfEmptyIsEmpty ==
    [][\A i, j \in SIds :
          /\ (SharedCopyBegin(i, j) /\ sp[j].ptr = Null /\ sp[j].ctl = NoCtl) =>
                /\ ~aborted'
                /\ sp'[i] = [live |-> TRUE, ptr |-> Null, ctl |-> NoCtl]
                /\ use_count(sp'[i].ctl) = 0
          /\ (C27_Copied(i) /\ loc[i].src = j /\ sp[j].ptr # Null
                /\ sp[j].ctl # NoCtl /\ cst[sp[j].ctl] = "live" /\ Owners(sp[j].ctl) # {}) =>
                /\ ~aborted'
                /\ sp'[i] = sp[j]
                /\ strong' = [strong EXCEPT ![sp[j].ctl] = @ + 1]]_vars

\* ------------------------------------------------------------------- C28
\* This step ends an aliasing construction of slot i from an rvalue whose
\* control block is allocated.
C28_AliasMoved(i) ==
    /\ spc[i] = "cas" /\ loc[i].op = "alias_mv" /\ spc'[i] = "idle"
    /\ cst[loc[i].ctl] = "live"

\* C28: after shared_dptr(alias_with, std::move(src), addr) the source is
\* empty and the alias has its control block, the strong count is what it was
\* before the construction, namely the number of live owners, and the object
\* is destroyed once no owner is left.
C28_AliasFromRvalueTransfers ==
    /\ [][\A i \in SIds : C28_AliasMoved(i) =>
            LET j == loc[i].src
                c == loc[i].ctl
            IN /\ sp'[j] = [live |-> TRUE, ptr |-> Null, ctl |-> NoCtl]
               /\ sp'[i] = [live |-> TRUE, ptr |-> loc[i].addr, ctl |-> c]
               /\ strong'[c] = Cardinality({k \in SIds : sp'[k].live /\ sp'[k].ptr # Null
                                                          /\ sp'[k].ctl = c})]_vars
    /\ [](\A i \in SIds :
            (sp[i].live /\ Idle(i) /\ sp[i].ptr # Null /\ sp[i].ctl # NoCtl
               /\ cst[sp[i].ctl] = "live" /\ (\A k \in SIds : Idle(k))) =>
                  strong[sp[i].ctl] = Cardinality(Owners(sp[i].ctl)))
    /\ [](\A c \in Ctls :
            (cst[c] = "live" /\ Owners(c) = {} /\ (\A k \in SIds : Idle(k))) => cobj[c] = Null)

\* ------------------------------------------------------------------- C29
\* Slots i and j are owners with one and the same allocated control block
\* (i = j: self-assignment).
C29_SameBlock(i, j) ==
    /\ sp[i].ptr # Null /\ sp[j].ptr # Null
    /\ sp[i].ctl # NoCtl /\ sp[i].ctl = sp[j].ctl /\ cst[sp[i].ctl] = "live"
\* The copy assignment running on slot i is one between owners of one block.
C29_Running(i) ==
    /\ spc[i] # "idle" /\ loc[i].op = "cassign"
    /\ sp[i].ctl # NoCtl /\ sp[loc[i].src].ctl = sp[i].ctl

\* C29: a copy assignment between shared pointers with the same control
\* block, self-assignment of the only owner included, never destroys the
\* object, leaves use_count() as it was (the assignment takes one share and
\* gives one back) and never touches a deallocated control block.
C29_SameBlockCopyAssignKeepsObject ==
    /\ [](\A i \in SIds : C29_Running(i) =>
            /\ spc[i] = "assign"
            /\ cst[sp[i].ctl] = "live" /\ cobj[sp[i].ctl] # Null)
    /\ [][\A i, j \in SIds :
            /\ (CopyAssignBegin(i, j) /\ C29_SameBlock(i, j)) =>
                  /\ dtorCalls' = dtorCalls
                  /\ strong' = [strong EXCEPT ![sp[i].ctl] = @ - 1]
            /\ (C29_Running(i) /\ AssignStep(i)) =>
                  /\ strong' = [strong EXCEPT ![sp[i].ctl] = @ + 1]
                  /\ ub' = ub /\ "uaf" \notin ub']_vars

\* ------------------------------------------------------------------- C30
\* The shared and weak pointers, not in an operation, that reach control
\* block c through get_control().
C30_Reaching(c) ==
    {<<"shared", i>> : i \in {k \in SIds : sp[k].live /\ Idle(k) /\ sp[k].ctl = c}}
    \cup {<<"weak", w>> : w \in {v \in WIds : wp[v].live /\ wpc[v] = "idle" /\ wp[v].ctl = c}}

\* C30: no operation reads or modifies the counters of a deallocated control
\* block: a shared or weak pointer that still reaches a control block (also
\* after an explicit destroy_and_delete() on a shared pointer) holds a share
\* that keeps the block allocated, so no reachable block is deallocated.
C30_NoAccessAfterDeallocation ==
    [](/\ "uaf" \notin ub
       /\ \A c \in Ctls : cst[c] = "freed" => C30_Reaching(c) = {})

====
